---------------------------- MODULE Spec2Model ----------------------------
(***************************************************************************)
(* Model of the enrichment pipelines of src/src/enrich.py.                 *)
(*                                                                         *)
(* Text values are sequences of one-character strings; " " is the          *)
(* whitespace character.  A dict key that is absent (ev.get(k) is None)    *)
(* is the value Absent.  URLs are TLA+ strings, "" being the empty URL.    *)
(* A call of an enrich_* function is one action: the whole loop over the   *)
(* records is computed by a fold over the record indices.                  *)
(***************************************************************************)
EXTENDS Integers, Sequences, FiniteSets, TLC

VARIABLES
    events,     \* the record list the caller holds (mutated in place)
    session,    \* the dict the caller may pass as session_cache
    last,       \* observation of the most recent call (arguments, result, log)
    first,      \* observation of the call before it
    site,       \* what each URL serves at the moment (two-run scenario)
    changed,    \* whether the upstream changed between the two runs
    input,      \* the argument a pure function of the program is applied to
    output,     \* what the function returned for it
    prior       \* the result of the application before, where two are compared

vars == <<events, session, last, first, site, changed, input, output, prior>>

\* the variables of the enrichment calls, and those of the pure functions
calls == <<events, session, last, first, site, changed>>
pure == <<input, output, prior>>

\* value of a variable that the behaviour at hand does not use
Idle == [op |-> "none"]

(***************************** bounds **************************************)
NumEvents == 2

(***************************** text ****************************************)
Absent == <<"<absent>">>
Empty == <<>>

IsSpace(c) == c = " "

RECURSIVE LStrip(_)
LStrip(s) ==
    IF s = <<>> THEN s
    ELSE IF IsSpace(Head(s)) THEN LStrip(Tail(s)) ELSE s

RECURSIVE RStrip(_)
RStrip(s) ==
    IF s = <<>> THEN s
    ELSE IF IsSpace(s[Len(s)]) THEN RStrip(SubSeq(s, 1, Len(s) - 1)) ELSE s

\* str.strip()
Strip(s) == RStrip(LStrip(s))

\* runs of whitespace collapsed to one space
RECURSIVE Collapse(_)
Collapse(s) ==
    IF Len(s) < 2 THEN s
    ELSE IF IsSpace(s[1]) /\ IsSpace(s[2]) THEN Collapse(Tail(s))
    ELSE <<Head(s)>> \o Collapse(Tail(s))

\* " ".join(raw.split())
Normalize(s) == Strip(Collapse(s))

\* existing is None or str(existing).strip() == ""
IsBlank(v) == v = Absent \/ Strip(v) = Empty

(***************************** upstream ************************************)
\* What one HTTP fetch of an event page can produce.
\*   neterr     requests.get raises (timeout, DNS, connection refused)
\*   badstatus  raise_for_status raises (non-2xx)
\*   broken     the response cannot be parsed: an exception leaves fetch_*
\*   ok         a page; container is the raw text of the element the
\*              pipeline looks for, or Absent when the page has none
RawTexts == {<<" ">>, <<"a">>, <<" ", "b", " ", " ", "c">>}

Responses ==
    {[status |-> s, container |-> Absent] : s \in {"neterr", "badstatus", "broken"}}
    \cup {[status |-> "ok", container |-> c] : c \in RawTexts \cup {Absent}}

Returned(v) == [raised |-> FALSE, value |-> v]
Raised == [raised |-> TRUE, value |-> Empty]

fetch_subtitle(resp) ==
    IF resp.status = "neterr" THEN Returned(Empty)
    ELSE IF resp.status = "badstatus" THEN Returned(Empty)
    ELSE IF resp.status = "broken" THEN Raised
    ELSE IF resp.container = Absent THEN Returned(Empty)
    ELSE Returned(Normalize(resp.container))

\* _to_text on a one-line fragment: words joined by single spaces, stripped
ToText(raw) == Strip(Normalize(raw))

fetch_content_body(resp) ==
    IF resp.status = "neterr" THEN Returned(Empty)
    ELSE IF resp.status = "badstatus" THEN Returned(Empty)
    ELSE IF resp.status = "broken" THEN Raised
    ELSE IF resp.container = Absent THEN Returned(Empty)
    ELSE Returned(ToText(resp.container))

fetch_raw_details_html(resp) ==
    IF resp.status \in {"neterr", "badstatus"} THEN Returned(Empty)
    ELSE IF resp.status = "broken" THEN Raised
    ELSE IF resp.container = Absent THEN Returned(Empty)
    ELSE Returned(Strip(resp.container))


(***************************** records *************************************)
UrlValues == {"", "u1", "u2"}

Rec(u, t, c, d, a, b) ==
    [urlRef |-> u, title |-> t, content |-> c, rawEventDetails |-> d,
     rawExtractAbstract |-> a, rawExtractBio |-> b]

\* url = ev.get("urlRef") or ""
NoUrl == "<absent>"
UrlOf(ev) == IF ev.urlRef = NoUrl THEN "" ELSE ev.urlRef

\* the dict a call uses as its cache: url -> text
EmptyDict == [u \in {} |-> Empty]
DictPut(d, k, v) == [x \in (DOMAIN d) \cup {k} |-> IF x = k THEN v ELSE d[x]]

\* the session_cache argument: None, or a dict of the caller
NoCache == [given |-> FALSE, dict |-> EmptyDict]
Given(d) == [given |-> TRUE, dict |-> d]

ZeroStats == [attempted |-> 0, updated |-> 0, skipped_missing_url |-> 0, errors |-> 0]

ZeroExtractStats ==
    [attempted |-> 0, updated_abstract |-> 0, updated_bio |-> 0,
     skipped_missing_details |-> 0, errors |-> 0]

(***************************** fetch pipelines *****************************)
Kinds == {"titles", "content", "raw_details"}

Field(kind) ==
    CASE kind = "titles" -> "title"
      [] kind = "content" -> "content"
      [] kind = "raw_details" -> "rawEventDetails"

Fetch(kind, resp) ==
    CASE kind = "titles" -> fetch_subtitle(resp)
      [] kind = "content" -> fetch_content_body(resp)
      [] kind = "raw_details" -> fetch_raw_details_html(resp)

\* one entry of the per-record log of a call (observation only): the path the
\* iteration took, where its value came from, the value, the response consumed
Entry(path, via, value, resp) == [path |-> path, via |-> via, value |-> value, resp |-> resp]

Unused == [status |-> "unused", container |-> Absent]

\* mutant: the cache of a call is always a fresh dict
CacheFor_fresh(session_cache) == EmptyDict

\* cache = session_cache if session_cache is not None else {}
CacheFor(session_cache) ==
    IF session_cache.given THEN session_cache.dict ELSE EmptyDict

\* mutant: every obtained value is written, whatever the field holds
ShouldOverwrite_always(overwrite, existing) == TRUE

\* mutant: the existing value is compared with "" without being stripped
ShouldOverwrite_nostrip(overwrite, existing) ==
    overwrite \/ existing = Absent \/ existing = Empty

\* should_overwrite = overwrite or existing is None or str(existing).strip() == ""
ShouldOverwrite(overwrite, existing) == overwrite \/ IsBlank(existing)

\* url in cache
CacheHit(cache, url) == url \in DOMAIN cache

\* mutant: the except branch does not cache the empty result
OnFetchError_nocache(acc, url, resp) ==
    [acc EXCEPT !.stats.errors = @ + 1,
                !.fetches = Append(@, url),
                !.log = Append(@, Entry("error", "fetch", Empty, resp))]

\* mutant: the except branch does not count the error
OnFetchError_uncounted(acc, url, resp) ==
    [acc EXCEPT !.cache = DictPut(@, url, Empty),
                !.fetches = Append(@, url),
                !.log = Append(@, Entry("error", "fetch", Empty, resp))]

\* the except branch of the loop body: count the error, cache "", next record
OnFetchError(acc, url, resp) ==
    [acc EXCEPT !.stats.errors = @ + 1,
                !.cache = DictPut(@, url, Empty),
                !.fetches = Append(@, url),
                !.log = Append(@, Entry("error", "fetch", Empty, resp))]

\* mutant: no "if not subtitle: continue" before the overwrite decision
Decide_unguarded(kind, overwrite, acc, i, value, via, resp) ==
    IF ShouldOverwrite(overwrite, acc.events[i][Field(kind)])
    THEN [acc EXCEPT !.events[i][Field(kind)] = value,
                     !.stats.updated = @ + 1,
                     !.log = Append(@, Entry("written", via, value, resp))]
    ELSE [acc EXCEPT !.log = Append(@, Entry("kept", via, value, resp))]

\* the part of the loop body after the value (subtitle/body/html) is known
Decide(kind, overwrite, acc, i, value, via, resp) ==
    IF value = Empty
    THEN [acc EXCEPT !.log = Append(@, Entry("miss", via, value, resp))]
    ELSE IF ShouldOverwrite(overwrite, acc.events[i][Field(kind)])
    THEN [acc EXCEPT !.events[i][Field(kind)] = value,
                     !.stats.updated = @ + 1,
                     !.log = Append(@, Entry("written", via, value, resp))]
    ELSE [acc EXCEPT !.log = Append(@, Entry("kept", via, value, resp))]

\* one iteration of "for idx, ev in enumerate(events)"; resp is what the
\* network answers if this iteration fetches
EnrichStep(kind, overwrite, acc, i, resp) ==
    LET url == UrlOf(acc.events[i]) IN
    IF url = ""
    THEN [acc EXCEPT !.stats.skipped_missing_url = @ + 1,
                     !.log = Append(@, Entry("skip", "none", Empty, Unused))]
    ELSE LET att == [acc EXCEPT !.stats.attempted = @ + 1] IN
         IF CacheHit(att.cache, url)
         THEN Decide(kind, overwrite, att, i, att.cache[url], "cache", Unused)
         ELSE LET r == Fetch(kind, resp) IN
              IF r.raised
              THEN OnFetchError(att, url, resp)
              ELSE Decide(kind, overwrite,
                          [att EXCEPT !.cache = DictPut(@, url, r.value),
                                      !.fetches = Append(@, url)],
                          i, r.value, "fetch", resp)

RECURSIVE EnrichLoop(_, _, _, _, _)
EnrichLoop(kind, overwrite, acc, i, net) ==
    IF i > Len(acc.events) THEN acc
    ELSE EnrichLoop(kind, overwrite, EnrichStep(kind, overwrite, acc, i, net[i]), i + 1, net)

\* the state a call starts its loop in
Start(evs, cache, stats) ==
    [events |-> evs, cache |-> cache, stats |-> stats, fetches |-> <<>>, log |-> <<>>]

\* mutant: no "if not enable: return stats"
Enrich_always(kind, evs, enable, session_cache, overwrite, net) ==
    EnrichLoop(kind, overwrite, Start(evs, CacheFor(session_cache), ZeroStats), 1, net)

Enrich(kind, evs, enable, session_cache, overwrite, net) ==
    IF ~enable
    THEN Start(evs, session_cache.dict, ZeroStats)
    ELSE EnrichLoop(kind, overwrite, Start(evs, CacheFor(session_cache), ZeroStats), 1, net)

enrich_titles(evs, enable, session_cache, overwrite, net) ==
    Enrich("titles", evs, enable, session_cache, overwrite, net)

enrich_content(evs, enable, session_cache, overwrite, net) ==
    Enrich("content", evs, enable, session_cache, overwrite, net)

enrich_raw_details(evs, enable, session_cache, overwrite, net) ==
    Enrich("raw_details", evs, enable, session_cache, overwrite, net)

(***************************** raw extracts ********************************)
\* rawEventDetails is an HTML string.  It is written as a sequence of units:
\* a tag ("<p>", "</p>", "<hr>"), the whitespace character " ", the colon
\* ":", a marker word in one of its spellings ("Abstract", "ABSTRACT",
\* "abstract", "Bio", "BIO", "bio"), or any other character ("a", "b", ...).
\* The string is the concatenation of its units: <<"<p>", "Abstract", ":",
\* " ", "a", "</p>">> is '<p>Abstract: a</p>'.
OpenTags == {"<div>", "<p>", "<h2>", "<h3>", "<b>", "<strong>"}
CloseTags == {"</div>", "</p>", "</h2>", "</h3>", "</b>", "</strong>"}
VoidTags == {"<hr>"}

\* the element name of an opening tag: "<h2>" is "h2"
TagName(tag) ==
    CASE tag = "<div>" -> "div"
      [] tag = "<p>" -> "p"
      [] tag = "<h2>" -> "h2"
      [] tag = "<h3>" -> "h3"
      [] tag = "<b>" -> "b"
      [] tag = "<strong>" -> "strong"
      [] tag = "<hr>" -> "hr"

IsTagUnit(u) == u \in OpenTags \cup CloseTags \cup VoidTags

\* the nodes of the parsed tree: NavigableString and Tag
TextNode(s) == [name |-> "#text", text |-> s, kids |-> <<>>]
Element(n, kids) == [name |-> n, text |-> <<>>, kids |-> kids]

\* index after the run of text units that starts at i
RECURSIVE TextEnd(_, _)
TextEnd(toks, i) ==
    IF i > Len(toks) \/ IsTagUnit(toks[i]) THEN i ELSE TextEnd(toks, i + 1)

\* html.parser on well-formed markup: the sibling nodes from unit i up to
\* the closing tag of the enclosing element (or the end of the string)
RECURSIVE ParseNodes(_, _)
ParseNodes(toks, i) ==
    IF i > Len(toks) THEN [kids |-> <<>>, next |-> i]
    ELSE IF toks[i] \in CloseTags THEN [kids |-> <<>>, next |-> i + 1]
    ELSE IF toks[i] \in VoidTags
    THEN LET rest == ParseNodes(toks, i + 1) IN
         [kids |-> <<Element(TagName(toks[i]), <<>>)>> \o rest.kids, next |-> rest.next]
    ELSE IF toks[i] \in OpenTags
    THEN LET inner == ParseNodes(toks, i + 1)
             rest == ParseNodes(toks, inner.next)
         IN  [kids |-> <<Element(TagName(toks[i]), inner.kids)>> \o rest.kids,
              next |-> rest.next]
    ELSE LET j == TextEnd(toks, i)
             rest == ParseNodes(toks, j)
         IN  [kids |-> <<TextNode(SubSeq(toks, i, j - 1))>> \o rest.kids,
              next |-> rest.next]

\* soup = BeautifulSoup(raw_html, "html.parser")
BeautifulSoup(raw_html) == Element("[document]", ParseNodes(raw_html, 1).kids)

\* a node of the tree is addressed by its path of child indices from the root
RECURSIVE NodeAt(_, _)
NodeAt(node, path) ==
    IF path = <<>> THEN node ELSE NodeAt(node.kids[Head(path)], Tail(path))

ParentOf(path) == SubSeq(path, 1, Len(path) - 1)

\* the paths of all nodes below path, in document order
RECURSIVE Descendants(_, _, _)
Descendants(soup, path, k) ==
    IF k > Len(NodeAt(soup, path).kids) THEN <<>>
    ELSE <<path \o <<k>>>> \o Descendants(soup, path \o <<k>>, 1)
             \o Descendants(soup, path, k + 1)

\* node.get_text(strip=True): every string below the node stripped, the
\* empty ones dropped, the rest concatenated
RECURSIVE GetText(_)
RECURSIVE GetTextOf(_, _)
GetText(node) ==
    IF node.name = "#text" THEN Strip(node.text) ELSE GetTextOf(node.kids, 1)
GetTextOf(kids, k) ==
    IF k > Len(kids) THEN <<>> ELSE GetText(kids[k]) \o GetTextOf(kids, k + 1)

\* str.lower() on the units
LowerUnit(u) ==
    IF u \in {"Abstract", "ABSTRACT", "abstract"} THEN "abstract"
    ELSE IF u \in {"Bio", "BIO", "bio"} THEN "bio"
    ELSE u

Lower(s) == [k \in 1..Len(s) |-> LowerUnit(s[k])]

\* s.find(pat) + 1: position of the first occurrence of pat in s, 0 if none
Find(s, pat) ==
    LET hits == {k \in 1..(Len(s) - Len(pat) + 1) : SubSeq(s, k, k + Len(pat) - 1) = pat}
    IN  IF hits = {} THEN 0 ELSE CHOOSE k \in hits : \A h \in hits : k <= h

\* pat in s
Contains(s, pat) == Find(s, pat) > 0

\* first element of a sequence of paths that satisfies a test, <<0>> if none
NoPath == <<0>>

Strings(soup) ==
    LET all == Descendants(soup, <<>>, 1) IN
    SelectSeq(all, LAMBDA p : NodeAt(soup, p).name = "#text")

Tags(soup) ==
    LET all == Descendants(soup, <<>>, 1) IN
    SelectSeq(all, LAMBDA p : NodeAt(soup, p).name # "#text")

\* Pattern 1: the parent of the first string that contains "Word:"
ColonMarker(soup, word) ==
    LET hits == SelectSeq(Strings(soup),
                          LAMBDA p : Contains(NodeAt(soup, p).text, <<word, ":">>))
    IN  IF hits = <<>> THEN NoPath ELSE ParentOf(Head(hits))

BlockNames == {"p", "div", "section", "article"}

\* while parent and parent.name not in ['p', 'div', 'section', 'article']
RECURSIVE BlockAncestor(_, _)
BlockAncestor(soup, path) ==
    IF NodeAt(soup, path).name \in BlockNames THEN path
    ELSE IF path = <<>> THEN NoPath
    ELSE BlockAncestor(soup, ParentOf(path))

\* the second search: strings that contain the word as spelled in the code,
\* accepted when the nearest block ancestor's text contains "word:" in
\* lower case; the marker is that ancestor
WrappedMarker(soup, word) ==
    LET accepted(p) ==
            /\ Contains(Strip(NodeAt(soup, p).text), <<word>>)
            /\ Contains(Lower(Strip(NodeAt(soup, p).text)), <<LowerUnit(word)>>)
            /\ LET anc == BlockAncestor(soup, ParentOf(p)) IN
               /\ anc # NoPath
               /\ Contains(Lower(GetText(NodeAt(soup, anc))), <<LowerUnit(word), ":">>)
        hits == SelectSeq(Strings(soup), accepted)
    IN  IF hits = <<>> THEN NoPath ELSE BlockAncestor(soup, ParentOf(Head(hits)))

HeadingNames == {"h1", "h2", "h3", "h4", "h5", "h6"}

\* Pattern 2: the first h1..h6 whose text is the word, in any case
HeadingMarker(soup, word) ==
    LET hits == SelectSeq(Tags(soup),
                          LAMBDA p : /\ NodeAt(soup, p).name \in HeadingNames
                                     /\ Lower(GetText(NodeAt(soup, p))) = <<LowerUnit(word)>>)
    IN  IF hits = <<>> THEN NoPath ELSE Head(hits)

\* the marker search of the extractors: which search found it, and where
FindMarker(soup, word) ==
    IF ColonMarker(soup, word) # NoPath
    THEN [strategy |-> "colon", path |-> ColonMarker(soup, word)]
    ELSE IF WrappedMarker(soup, word) # NoPath
    THEN [strategy |-> "wrapped", path |-> WrappedMarker(soup, word)]
    ELSE IF HeadingMarker(soup, word) # NoPath
    THEN [strategy |-> "heading", path |-> HeadingMarker(soup, word)]
    ELSE [strategy |-> "none", path |-> NoPath]

\* name.startswith('h'), over the element names of HTML
StartsWithH(name) ==
    name \in HeadingNames \cup {"hr", "head", "header", "hgroup", "html"}

\* mutant: a heading among the siblings is passed over, the walk goes on
RECURSIVE CollectSiblings_nostop(_, _)
CollectSiblings_nostop(kids, k) ==
    IF k > Len(kids) THEN <<>>
    ELSE IF StartsWithH(kids[k].name) THEN CollectSiblings_nostop(kids, k + 1)
    ELSE LET text == GetText(kids[k]) IN
         (IF text # <<>> THEN <<text>> ELSE <<>>) \o CollectSiblings_nostop(kids, k + 1)

\* the while loop over next_sibling, from child k of the marker's parent
RECURSIVE CollectSiblings(_, _)
CollectSiblings(kids, k) ==
    IF k > Len(kids) THEN <<>>
    ELSE IF StartsWithH(kids[k].name) THEN <<>>
    ELSE LET text == GetText(kids[k]) IN
         (IF text # <<>> THEN <<text>> ELSE <<>>) \o CollectSiblings(kids, k + 1)

\* text_content[pos + len("word:"):].strip(), kept when not empty
AfterMarker(marker, word) ==
    LET text_content == GetText(marker)
        pos == Find(Lower(text_content), <<LowerUnit(word), ":">>)
        after_marker == Strip(SubSeq(text_content, pos + 2, Len(text_content)))
    IN  IF pos = 0 \/ after_marker = <<>> THEN <<>> ELSE <<after_marker>>

\* content_parts for a marker found at path
ContentParts(soup, path, word) ==
    IF StartsWithH(NodeAt(soup, path).name)
    THEN CollectSiblings(NodeAt(soup, ParentOf(path)).kids, path[Len(path)] + 1)
    ELSE AfterMarker(NodeAt(soup, path), word)

\* " ".join(content_parts)
RECURSIVE JoinSp(_)
JoinSp(parts) ==
    IF parts = <<>> THEN <<>>
    ELSE IF Len(parts) = 1 THEN parts[1]
    ELSE parts[1] \o <<" ">> \o JoinSp(Tail(parts))

\* one run of an extractor: the marker it settled on and the text it returns
Extraction(raw_html, word) ==
    IF raw_html = Empty \/ Strip(raw_html) = Empty
    THEN [strategy |-> "none", path |-> NoPath, text |-> Empty]
    ELSE LET soup == BeautifulSoup(raw_html)
             found == FindMarker(soup, word)
         IN  IF found.strategy = "none"
             THEN [strategy |-> "none", path |-> NoPath, text |-> Empty]
             ELSE [strategy |-> found.strategy, path |-> found.path,
                   text |-> Strip(JoinSp(ContentParts(soup, found.path, word)))]

ExtractSection(raw_html, word) == Extraction(raw_html, word).text

extract_abstract_from_raw_details(raw_html) == ExtractSection(raw_html, "Abstract")

extract_bio_from_raw_details(raw_html) == ExtractSection(raw_html, "Bio")

\* "Extract abstract" block of the loop body; raises: the extractor throws
AbstractPart(overwrite, acc, i, raises) ==
    IF ~ShouldOverwrite(overwrite, acc.events[i].rawExtractAbstract)
    THEN [acc EXCEPT !.log[i].abstract = "guarded"]
    ELSE IF raises
    THEN [acc EXCEPT !.stats.errors = @ + 1, !.log[i].abstract = "error"]
    ELSE LET abstract == extract_abstract_from_raw_details(acc.events[i].rawEventDetails) IN
         IF abstract # Empty
         THEN [acc EXCEPT !.events[i].rawExtractAbstract = abstract,
                          !.stats.updated_abstract = @ + 1,
                          !.log[i].abstract = "written"]
         ELSE [acc EXCEPT !.log[i].abstract = "empty"]

\* mutant: both extractions in one try block, an abstract error skips the bio
BioPart_afterAbstract(overwrite, acc, i, raises) ==
    IF acc.log[i].abstract = "error" THEN acc
    ELSE IF ~ShouldOverwrite(overwrite, acc.events[i].rawExtractBio)
    THEN [acc EXCEPT !.log[i].bio = "guarded"]
    ELSE IF raises
    THEN [acc EXCEPT !.stats.errors = @ + 1, !.log[i].bio = "error"]
    ELSE LET bio == extract_bio_from_raw_details(acc.events[i].rawEventDetails) IN
         IF bio # Empty
         THEN [acc EXCEPT !.events[i].rawExtractBio = bio,
                          !.stats.updated_bio = @ + 1,
                          !.log[i].bio = "written"]
         ELSE [acc EXCEPT !.log[i].bio = "empty"]

\* "Extract bio" block of the loop body
BioPart(overwrite, acc, i, raises) ==
    IF ~ShouldOverwrite(overwrite, acc.events[i].rawExtractBio)
    THEN [acc EXCEPT !.log[i].bio = "guarded"]
    ELSE IF raises
    THEN [acc EXCEPT !.stats.errors = @ + 1, !.log[i].bio = "error"]
    ELSE LET bio == extract_bio_from_raw_details(acc.events[i].rawEventDetails) IN
         IF bio # Empty
         THEN [acc EXCEPT !.events[i].rawExtractBio = bio,
                          !.stats.updated_bio = @ + 1,
                          !.log[i].bio = "written"]
         ELSE [acc EXCEPT !.log[i].bio = "empty"]

\* mutant: "if not raw_details" without the strip
MissingDetails_nostrip(ev) ==
    ev.rawEventDetails = Absent \/ ev.rawEventDetails = Empty

\* raw_details = ev.get("rawEventDetails") or ""
\* if not raw_details or not raw_details.strip()
MissingDetails(ev) ==
    ev.rawEventDetails = Absent \/ ev.rawEventDetails = Empty
        \/ Strip(ev.rawEventDetails) = Empty

ExtractStep(overwrite, acc, i, absRaises, bioRaises) ==
    LET logged == [acc EXCEPT !.log = Append(@, [abstract |-> "skip", bio |-> "skip"])] IN
    IF MissingDetails(acc.events[i])
    THEN [logged EXCEPT !.stats.skipped_missing_details = @ + 1]
    ELSE BioPart(overwrite,
                 AbstractPart(overwrite,
                              [logged EXCEPT !.stats.attempted = @ + 1],
                              i, absRaises),
                 i, bioRaises)

RECURSIVE ExtractLoop(_, _, _, _, _)
ExtractLoop(overwrite, acc, i, absFail, bioFail) ==
    IF i > Len(acc.events) THEN acc
    ELSE ExtractLoop(overwrite,
                     ExtractStep(overwrite, acc, i, i \in absFail, i \in bioFail),
                     i + 1, absFail, bioFail)

enrich_raw_extracts(evs, enable, overwrite, absFail, bioFail) ==
    IF ~enable
    THEN Start(evs, EmptyDict, ZeroExtractStats)
    ELSE ExtractLoop(overwrite, Start(evs, EmptyDict, ZeroExtractStats), 1, absFail, bioFail)

(***************************** the caller **********************************)
Call(kind, evs, enable, session_cache, overwrite, net) ==
    CASE kind = "titles" -> enrich_titles(evs, enable, session_cache, overwrite, net)
      [] kind = "content" -> enrich_content(evs, enable, session_cache, overwrite, net)
      [] kind = "raw_details" -> enrich_raw_details(evs, enable, session_cache, overwrite, net)

Observed(kind, enable, overwrite, session_cache, before, r) ==
    [kind |-> kind, enable |-> enable, overwrite |-> overwrite,
     given |-> session_cache.given, cache0 |-> session_cache.dict,
     before |-> before, stats |-> r.stats, fetches |-> r.fetches,
     log |-> r.log, cache |-> r.cache]

NoCall(evs) == Observed("none", FALSE, FALSE, NoCache, evs, Start(evs, EmptyDict, ZeroStats))

Finish(kind, enable, overwrite, session_cache, r) ==
    /\ events' = r.events
    /\ session' = IF session_cache.given THEN r.cache ELSE session
    /\ last' = Observed(kind, enable, overwrite, session_cache, events, r)
    /\ first' = last

\* ---- one call on arbitrary input ----------------------------------------
Existing == {Absent, <<" ">>, <<"a">>}

FetchRecords ==
    {Rec(NoUrl, Absent, Absent, Absent, Absent, Absent),
     Rec("", <<"a">>, <<"a">>, <<"a">>, Absent, Absent),
     Rec("u2", <<" ">>, <<" ">>, <<" ">>, Absent, Absent)}
    \cup {Rec("u1", e, e, e, Absent, Absent) : e \in Existing}

Docs ==
    {Empty, <<" ">>, <<"<p>", "a", "</p>">>,
     <<"<h2>", "Abstract", "</h2>", "<p>", "a", "</p>",
       "<h2>", "Bio", "</h2>", "<p>", "b", "</p>">>,
     <<"<h2>", "Bio", "</h2>", " ", "<h2>", "Abstract", "</h2>",
       "<p>", "a", "</p>", "<p>", "b", "</p>">>}

ExtractRecords ==
    {Rec("", Absent, Absent, d, ab[1], ab[2]) :
        d \in Docs \cup {Absent},
        ab \in {<<Absent, Absent>>, <<Absent, <<"c">>>>, <<<<"c">>, <<" ">>>>}}

\* the session_cache arguments of a caller: none, or a dict it made
SessionDicts == {EmptyDict, [u \in {"u1"} |-> <<"b">>]}

SessionArgs == {NoCache} \cup {Given(d) : d \in SessionDicts}

\* the records on which an extractor throws: at most one per call
Faults == {{}} \cup {{i} : i \in 1..NumEvents}

NoSite == [u \in {"u1", "u2"} |-> [status |-> "ok", container |-> Absent]]

Init ==
    /\ events \in [1..NumEvents -> FetchRecords] \cup [1..NumEvents -> ExtractRecords]
    /\ session = EmptyDict
    /\ last = NoCall(events)
    /\ first = last
    /\ site = NoSite
    /\ changed = FALSE
    /\ input = Idle /\ output = Idle /\ prior = Idle

\* the network's answers, one for each record that has a URL
Nets(evs) == [{i \in 1..Len(evs) : UrlOf(evs[i]) # ""} -> Responses]

CallEnrich(kind) ==
    /\ last.kind = "none"
    /\ \E enable \in BOOLEAN, overwrite \in BOOLEAN, sc \in SessionArgs, net \in Nets(events) :
          Finish(kind, enable, overwrite, sc, Call(kind, events, enable, sc, overwrite, net))
    /\ UNCHANGED <<site, changed>>
    /\ UNCHANGED pure

CallEnrichTitles == CallEnrich("titles")

CallEnrichContent == CallEnrich("content")

CallEnrichRawDetails == CallEnrich("raw_details")

CallEnrichRawExtracts ==
    /\ last.kind = "none"
    /\ \E enable \in BOOLEAN, overwrite \in BOOLEAN, absFail \in Faults, bioFail \in Faults :
          Finish("raw_extracts", enable, overwrite, NoCache,
                 enrich_raw_extracts(events, enable, overwrite, absFail, bioFail))
    /\ UNCHANGED <<site, changed>>
    /\ UNCHANGED pure

Next ==
    \/ CallEnrichTitles
    \/ CallEnrichContent
    \/ CallEnrichRawDetails
    \/ CallEnrichRawExtracts

Spec == Init /\ [][Next]_vars

\* ---- two runs in succession, the upstream possibly changing in between ---
TwiceRecords ==
    {Rec("u1", <<" ">>, <<" ">>, <<" ">>, Absent, Absent),
     Rec("u1", <<"a">>, <<"a">>, <<"a">>, Absent, Absent),
     Rec("u2", Absent, Absent, Absent, Absent, Absent)}

TwiceResponses ==
    {[status |-> "neterr", container |-> Absent],
     [status |-> "broken", container |-> Absent],
     [status |-> "ok", container |-> <<"a">>],
     [status |-> "ok", container |-> <<" ", "b", " ", " ", "c">>]}

Sites == [{"u1", "u2"} -> TwiceResponses]

InitTwice ==
    /\ events \in [1..NumEvents -> TwiceRecords]
    /\ session = EmptyDict
    /\ last = NoCall(events)
    /\ first = last
    /\ site \in Sites
    /\ changed = FALSE
    /\ input = Idle /\ output = Idle /\ prior = Idle

\* every fetch of a URL is answered by what the site serves now
SiteNet(evs) == [i \in {j \in 1..Len(evs) : UrlOf(evs[j]) # ""} |-> site[UrlOf(evs[i])]]

Run ==
    \E kind \in Kinds, overwrite \in BOOLEAN, sc \in {NoCache, Given(session)} :
        Finish(kind, TRUE, overwrite, sc,
               Call(kind, events, TRUE, sc, overwrite, SiteNet(events)))

FirstRun ==
    /\ last.kind = "none"
    /\ Run
    /\ UNCHANGED <<site, changed>>
    /\ UNCHANGED pure

SiteChanges ==
    /\ last.kind # "none" /\ first.kind = "none" /\ ~changed
    /\ site' \in Sites \ {site}
    /\ changed' = TRUE
    /\ UNCHANGED <<events, session, last, first>>
    /\ UNCHANGED pure

SecondRun ==
    /\ last.kind # "none" /\ first.kind = "none"
    /\ Run
    /\ UNCHANGED <<site, changed>>
    /\ UNCHANGED pure

NextTwice == FirstRun \/ SiteChanges \/ SecondRun

SpecTwice == InitTwice /\ [][NextTwice]_vars

\* ---- the marker extractors applied to a document --------------------------
MaxBlocks == 3

\* the pieces documents are put together from
Blocks ==
    {<<" ">>,
     <<"<p>", "a", "</p>">>,
     <<"<h2>", "Abstract", "</h2>">>,
     <<"<h3>", "ABSTRACT", "</h3>">>,
     <<"<h2>", "Bio", "</h2>", "<p>", "d", "</p>">>,
     <<"<hr>">>,
     <<"<p>", "Abstract", ":", " ", "b", "</p>">>,
     <<"<p>", "<strong>", "Abstract", "</strong>", ":", " ", "c", "</p>">>,
     <<"<p>", "<b>", "ABSTRACT", "</b>", ":", " ", "c", "</p>">>,
     <<"<h2>", "Abstract", ":", " ", "g", "</h2>">>,
     <<"<p>", "<b>", "Bio", "</b>", ":", " ", "e", "</p>">>,
     <<"<strong>", "Abstract", "</strong>", ":", " ", "f">>}

RECURSIVE Concat(_)
Concat(seqs) == IF seqs = <<>> THEN <<>> ELSE Head(seqs) \o Concat(Tail(seqs))

\* a document: its blocks, inside a wrapping <div> or not
HtmlInputs ==
    {[op |-> "html", blocks |-> b, wrapped |-> w] :
        b \in UNION {[1..n -> Blocks] : n \in 0..MaxBlocks}, w \in BOOLEAN}

Html(in) ==
    IF in.wrapped THEN <<"<div>">> \o Concat(in.blocks) \o <<"</div>">>
    ELSE Concat(in.blocks)

InitExtract ==
    /\ events = <<>>
    /\ session = EmptyDict
    /\ last = NoCall(events)
    /\ first = last
    /\ site = NoSite
    /\ changed = FALSE
    /\ input \in HtmlInputs
    /\ output = Idle
    /\ prior = Idle

\* both extractors run on the document
ExtractMarkers ==
    /\ input.op = "html" /\ output = Idle
    /\ output' = [op |-> "extract",
                  abstract |-> Extraction(Html(input), "Abstract"),
                  bio |-> Extraction(Html(input), "Bio")]
    /\ UNCHANGED <<input, prior>>
    /\ UNCHANGED calls

\* a block that opens a section with a heading
OpensSection(block) == Len(block) > 0 /\ block[1] \in {"<h2>", "<h3>"}

\* the document is two sections, each opened by a heading; the same document
\* with the two sections in the other order is extracted next
ReorderSections ==
    /\ input.op = "html" /\ output # Idle /\ prior = Idle
    /\ \E k \in 2..Len(input.blocks) :
          /\ OpensSection(input.blocks[1]) /\ OpensSection(input.blocks[k])
          /\ input' = [input EXCEPT !.blocks =
                          SubSeq(@, k, Len(@)) \o SubSeq(@, 1, k - 1)]
          /\ prior' = [op |-> "before", split |-> k,
                        abstract |-> output.abstract, bio |-> output.bio]
    /\ output' = Idle
    /\ UNCHANGED calls

NextExtract == ExtractMarkers \/ ReorderSections

SpecExtract == InitExtract /\ [][NextExtract]_vars

(***************************** calendar record mapper **********************)
\* An attribute of a calendar entry is None, a string, an instant, or a
\* collection of tags in the order in which the container yields them.
None == [kind |-> "none"]
Str(t) == [kind |-> "str", text |-> t]
Instant(n) == [kind |-> "time", at |-> n]
TagList(ts) == [kind |-> "tags", tags |-> ts]

\* getattr(event, attr, None)
GetAttr(event, attr) == IF attr \in DOMAIN event THEN event[attr] ELSE None

\* the characters of the model in code point order
CodePoints ==
    <<"\t", "\n", "\r", " ", ",", "-", ";", "A", "B", "C", "\\", "a", "b", "c", "t", "|">>

Ord(c) == CHOOSE k \in 1..Len(CodePoints) : CodePoints[k] = c

\* s < t for two str
RECURSIVE StrLess(_, _)
StrLess(s, t) ==
    IF t = <<>> THEN FALSE
    ELSE IF s = <<>> THEN TRUE
    ELSE IF Head(s) = Head(t) THEN StrLess(Tail(s), Tail(t))
    ELSE Ord(Head(s)) < Ord(Head(t))

\* sorted(...) of a sequence of str: stable
RECURSIVE InsertStr(_, _)
InsertStr(done, x) ==
    IF done = <<>> THEN <<x>>
    ELSE IF StrLess(x, Head(done)) THEN <<x>> \o done
    ELSE <<Head(done)>> \o InsertStr(Tail(done), x)

\* the tags in the order in which the container yields them
SortedStr_asgiven(ts) == ts

RECURSIVE SortedStr(_)
SortedStr(ts) ==
    IF ts = <<>> THEN <<>>
    ELSE InsertStr(SortedStr(SubSeq(ts, 1, Len(ts) - 1)), ts[Len(ts)])

\* delimiter.join(parts)
RECURSIVE Join(_, _)
Join(delimiter, parts) ==
    IF parts = <<>> THEN <<>>
    ELSE IF Len(parts) = 1 THEN parts[1]
    ELSE parts[1] \o delimiter \o Join(delimiter, Tail(parts))

\* the regular expression class \s
White == {" ", "\t", "\n", "\r"}

\* value.replace("\r", "\n")
ReplaceCR(s) == [k \in 1..Len(s) |-> IF s[k] = "\r" THEN "\n" ELSE s[k]]

\* re.sub(r"[cls]+", " ", s): every maximal run of units of cls becomes a space
RECURSIVE SubRuns(_, _)
SubRuns(s, cls) ==
    IF s = <<>> THEN s
    ELSE IF Head(s) \in cls
    THEN IF Len(s) > 1 /\ s[2] \in cls THEN SubRuns(Tail(s), cls)
         ELSE <<" ">> \o SubRuns(Tail(s), cls)
    ELSE <<Head(s)>> \o SubRuns(Tail(s), cls)

clean_text(value, collapse) ==
    IF value = Empty THEN Empty
    ELSE LET v == ReplaceCR(value)
         IN  IF collapse
             THEN Strip(SubRuns(SubRuns(v, {"\n"}), White))
             ELSE v

EscapeUnit_nolookbehind(value, c) ==
    Concat([k \in 1..Len(value) |->
              IF value[k] = c THEN <<"\\", c>> ELSE <<value[k]>>])

\* re.sub(r"(?<!\\)c", r"\\c", value)
EscapeUnit(value, c) ==
    Concat([k \in 1..Len(value) |->
              IF value[k] = c /\ (k = 1 \/ value[k - 1] # "\\")
              THEN <<"\\", c>> ELSE <<value[k]>>])

escape_commas(value) == EscapeUnit(value, ",")
escape_semicolons(value) == EscapeUnit(value, ";")

\* raw.split("-", 1)
RECURSIVE SplitOnce(_, _)
SplitOnce(raw, sep) ==
    IF raw = <<>> THEN <<Empty>>
    ELSE IF Head(raw) = sep THEN <<Empty, Tail(raw)>>
    ELSE LET rest == SplitOnce(Tail(raw), sep)
         IN  [rest EXCEPT ![1] = <<Head(raw)>> \o @]

Location(name, detail) == [kind |-> "loc", name |-> name, id |-> Empty, detail |-> detail]

\* raw.rsplit("-", 1): the split at the last hyphen
parse_location_lasthyphen(raw) ==
    IF raw = None \/ raw.text = Empty THEN Location(Empty, Empty)
    ELSE LET hits == {k \in 1..Len(raw.text) : raw.text[k] = "-"}
             h == CHOOSE k \in hits : \A j \in hits : j <= k
         IN  IF hits = {} THEN Location(Empty, Strip(raw.text))
             ELSE Location(Strip(SubSeq(raw.text, h + 1, Len(raw.text))),
                           Strip(SubSeq(raw.text, 1, h - 1)))

parse_location(raw) ==
    IF raw = None \/ raw.text = Empty THEN Location(Empty, Empty)
    ELSE LET parts == SplitOnce(raw.text, "-")
         IN  IF Len(parts) = 2 THEN Location(Strip(parts[2]), Strip(parts[1]))
             ELSE Location(Empty, Strip(parts[1]))

\* The instants of the model are hours of one day in the target time zone;
\* the formatted time is the numeral of the hour.
format_time(arrow_dt, cfg) ==
    IF arrow_dt = None THEN Empty ELSE <<ToString(arrow_dt.at)>>

\* str(val)
PyStr(val) == IF val.kind = "time" THEN <<ToString(val.at)>> ELSE val.text

\* the branches of the mapping loop
Converted(val, attr, cfg) ==
    IF attr \in {"begin", "end"} THEN format_time(val, cfg)
    ELSE IF attr = "description"
    THEN LET desc == PyStr(val)
             esc == IF cfg.preserve_description_escapes
                    THEN escape_commas(escape_semicolons(desc)) ELSE desc
         IN  clean_text(esc, cfg.collapse_whitespace_in_description)
    ELSE IF attr = "name" THEN escape_commas(PyStr(val))
    ELSE IF attr = "categories"
    THEN IF val.kind = "tags"
         THEN IF cfg.join_categories
              THEN Join(cfg.categories_delimiter, SortedStr(val.tags))
              ELSE IF val.tags = <<>> THEN Empty ELSE val.tags[1]
         ELSE PyStr(val)
    ELSE PyStr(val)

\* for attr, target in cfg.field_mappings.items(): one turn
MapField(out, event, cfg, pair) ==
    LET attr == pair[1]
        target == pair[2]
        val == GetAttr(event, attr)
    IN  IF attr \in cfg.masked_fields THEN out
        ELSE IF val = None THEN out
        ELSE DictPut(out, target, Str(Converted(val, attr, cfg)))

RECURSIVE MapFields(_, _, _, _)
MapFields(out, event, cfg, pairs) ==
    IF pairs = <<>> THEN out
    ELSE MapFields(MapField(out, event, cfg, Head(pairs)), event, cfg, Tail(pairs))

\* the record after the mapping loop and the location
Mapped(event, cfg) ==
    DictPut(MapFields(EmptyDict, event, cfg, cfg.field_mappings),
            "location", parse_location(GetAttr(event, "location")))

\* out.setdefault(k, v) for every placeholder
RECURSIVE SetDefaults_overwrite(_, _)
SetDefaults_overwrite(out, pairs) ==
    IF pairs = <<>> THEN out
    ELSE SetDefaults_overwrite(DictPut(out, Head(pairs)[1], Str(Head(pairs)[2])), Tail(pairs))

RECURSIVE SetDefaults(_, _)
SetDefaults(out, pairs) ==
    IF pairs = <<>> THEN out
    ELSE LET k == Head(pairs)[1]
             v == Head(pairs)[2]
         IN  SetDefaults(IF k \in DOMAIN out THEN out ELSE DictPut(out, k, Str(v)),
                         Tail(pairs))

\* out[new_field] = out[source_field] for every copy whose source is present
RECURSIVE Copies(_, _)
Copies(out, pairs) ==
    IF pairs = <<>> THEN out
    ELSE LET new_field == Head(pairs)[1]
             source_field == Head(pairs)[2]
         IN  Copies(IF source_field \in DOMAIN out
                    THEN DictPut(out, new_field, out[source_field]) ELSE out,
                    Tail(pairs))

transform_event(event, cfg) ==
    Copies(SetDefaults(Mapped(event, cfg), cfg.placeholders), cfg.copies)

\* key=lambda e: e.begin or ""
SortKey(e) == IF e.begin = None THEN Str(Empty) ELSE e.begin

\* sorted(calendar.events, key=...): stable; the keys are instants
RECURSIVE InsertByBegin(_, _)
InsertByBegin(done, ev) ==
    IF done = <<>> THEN <<ev>>
    ELSE IF SortKey(ev).kind = "time" /\ SortKey(ev).at < SortKey(Head(done)).at
    THEN <<ev>> \o done
    ELSE <<Head(done)>> \o InsertByBegin(Tail(done), ev)

RECURSIVE SortedByBegin(_)
SortedByBegin(evs) ==
    IF evs = <<>> THEN <<>>
    ELSE InsertByBegin(SortedByBegin(SubSeq(evs, 1, Len(evs) - 1)), evs[Len(evs)])

\* an instant and a str do not compare: sorted raises TypeError
KeysCompare(evs) ==
    \A i, j \in 1..Len(evs) : SortKey(evs[i]).kind = SortKey(evs[j]).kind

transform_calendar(calendar, cfg) ==
    IF KeysCompare(calendar)
    THEN [raised |-> "none",
          events |-> LET evs == SortedByBegin(calendar)
                     IN  [k \in 1..Len(evs) |-> transform_event(evs[k], cfg)]]
    ELSE [raised |-> "TypeError", events |-> <<>>]

\* ---- the mapper applied to entries, locations and calendars ---------------
MaxTags == 3
MaxLocLen == 4
MaxEntries == 3

\* TransformConfig(): the defaults; the time zone and the time format are
\* part of format_time
TransformConfig ==
    [field_mappings |-> <<<<"uid", "guid">>, <<"begin", "startTime">>,
                          <<"end", "endTime">>, <<"url", "urlRef">>,
                          <<"categories", "series">>, <<"description", "content">>,
                          <<"name", "speaker">>>>,
     masked_fields |-> {"dtstamp", "sequence", "transp", "class"},
     placeholders |-> <<<<"title", Empty>>, <<"cancelled", Empty>>,
                        <<"bannerImage", Empty>>, <<"itemType", <<"advertisement">>>>>>,
     copies |-> <<>>,
     join_categories |-> TRUE,
     categories_delimiter |-> <<",">>,
     preserve_description_escapes |-> TRUE,
     collapse_whitespace_in_description |-> TRUE]

\* configurations: the summary mapped to the title instead of the speaker,
\* the URL masked, a default for the speaker, copies to a new and to a
\* mapped key, and the three switches
Configs ==
    {[TransformConfig EXCEPT
        !.field_mappings = IF retitle THEN [@ EXCEPT ![7] = <<"name", "title">>] ELSE @,
        !.masked_fields = IF mask THEN @ \cup {"url"} ELSE @,
        !.placeholders = IF tbd THEN @ \o <<<<"speaker", <<"TBD">>>>>> ELSE @,
        !.copies = cp,
        !.join_categories = jn,
        !.preserve_description_escapes = esc,
        !.collapse_whitespace_in_description = col] :
        retitle \in BOOLEAN, mask \in BOOLEAN, tbd \in BOOLEAN,
        cp \in {<<>>, <<<<"headline", "speaker">>>>, <<<<"speaker", "guid">>>>},
        jn \in BOOLEAN, esc \in BOOLEAN, col \in BOOLEAN}

\* calendar entries: every attribute but the uid may be missing
Entries ==
    [uid : {Str(<<"u">>)},
     begin : {None, Instant(1)},
     end : {None, Instant(2)},
     url : {None, Str(<<"h">>)},
     name : {None, Str(<<"a", ",", " ", "b">>)},
     description : {None, Str(<<"a", ",", "\r", "\n", " ", "b", "\\", ",", ";", "c", "\n">>)},
     location : {None, Str(<<"a", " ", "-", " ", "b">>)},
     categories : {TagList(<<>>), TagList(<<<<"B">>, <<"A">>>>), Str(<<"A">>)}]

EventInputs == {[op |-> "event", event |-> ev, cfg |-> cfg] : ev \in Entries, cfg \in Configs}

\* entries that differ in their categories only, under both join modes and
\* three delimiters
TagPool == {<<"C", "a", "t", "A">>, <<"C", "a", "t", "B">>, <<"C", "a", "t">>, <<"a">>}
TagLists == UNION {[1..n -> TagPool] : n \in 0..MaxTags}
CategoryInputs ==
    {[op |-> "event",
      event |-> [uid |-> Str(<<"u">>), categories |-> c],
      cfg |-> [TransformConfig EXCEPT !.join_categories = jn, !.categories_delimiter = d]] :
        c \in {TagList(ts) : ts \in TagLists} \cup {Str(<<"C", "a", "t", ",", "A">>)},
        jn \in BOOLEAN,
        d \in {<<",">>, <<";">>, <<" ", "|", " ">>}}

\* location strings
LocUnits == {"-", " ", "a", "b"}
LocationInputs ==
    {[op |-> "location", raw |-> r] :
        r \in {None, Str(<<"101", " ", "-", " ", "Sherrerd">>)}
              \cup {Str(t) : t \in UNION {[1..n -> LocUnits] : n \in 0..MaxLocLen}}}

\* calendars: the entries in the order in which calendar.events yields them
CalendarEntries ==
    {[uid |-> Str(<<u>>), begin |-> b] : u \in {"u", "v"}, b \in {None, Instant(1), Instant(2)}}
CalendarInputs ==
    {[op |-> "calendar", calendar |-> c, cfg |-> TransformConfig] :
        c \in UNION {[1..n -> CalendarEntries] : n \in 0..MaxEntries}}

\* the keyword arguments TransformConfig(...) accepts: the fields of the
\* dataclass
ConfigFields == (DOMAIN TransformConfig) \cup {"target_timezone", "time_format"}

\* TransformConfig(**kwargs): an unexpected keyword argument raises TypeError
MakeConfig(kwargs) ==
    IF DOMAIN kwargs \subseteq ConfigFields
    THEN [raised |-> "none",
          cfg |-> [f \in DOMAIN TransformConfig |->
                     IF f \in DOMAIN kwargs THEN kwargs[f] ELSE TransformConfig[f]]]
    ELSE [raised |-> "TypeError", cfg |-> TransformConfig]

\* descriptions with newlines, and the keyword arguments of a configuration
\* for them
MaxDescLen == 3
DescUnits == {"a", "\n", " ", ","}
Descriptions == UNION {[1..n -> DescUnits] : n \in 0..MaxDescLen}
Kwargs(mode, esc, col) ==
    [f \in (IF mode = "unset" THEN {} ELSE {"represent_newlines_as"})
            \cup (IF esc THEN {} ELSE {"preserve_description_escapes"})
            \cup (IF col THEN {} ELSE {"collapse_whitespace_in_description"}) |->
        IF f = "represent_newlines_as" THEN mode ELSE FALSE]
ConfiguredInputs ==
    {[op |-> "configured", kwargs |-> Kwargs(mode, esc, col), description |-> d] :
        mode \in {"unset", "literal_r"}, esc \in BOOLEAN, col \in BOOLEAN,
        d \in Descriptions}

\* descriptions with commas, semicolons and backslashes
MaxEscLen == 4
EscUnits == {"a", ",", ";", "\\"}
EscapeInputs ==
    {[op |-> "escape", description |-> d] :
        d \in UNION {[1..n -> EscUnits] : n \in 0..MaxEscLen}}

InitTransform ==
    /\ events = <<>>
    /\ session = EmptyDict
    /\ last = NoCall(events)
    /\ first = last
    /\ site = NoSite
    /\ changed = FALSE
    /\ input \in EventInputs \cup CategoryInputs \cup LocationInputs \cup CalendarInputs
                \cup ConfiguredInputs \cup EscapeInputs
    /\ output = Idle
    /\ prior = Idle

\* transform_event(event, cfg), with the record as it is after the mapping
\* loop and after the placeholders
TransformEvent ==
    /\ input.op = "event" /\ output = Idle
    /\ output' = [op |-> "record",
                  mapped |-> Mapped(input.event, input.cfg),
                  placed |-> SetDefaults(Mapped(input.event, input.cfg), input.cfg.placeholders),
                  record |-> transform_event(input.event, input.cfg)]
    /\ UNCHANGED <<input, prior>>
    /\ UNCHANGED calls

ParseLocation ==
    /\ input.op = "location" /\ output = Idle
    /\ output' = [op |-> "location", location |-> parse_location(input.raw)]
    /\ UNCHANGED <<input, prior>>
    /\ UNCHANGED calls

TransformCalendar ==
    /\ input.op = "calendar" /\ output = Idle
    /\ output' = [op |-> "records", result |-> transform_calendar(input.calendar, input.cfg)]
    /\ UNCHANGED <<input, prior>>
    /\ UNCHANGED calls

\* cfg = TransformConfig(**kwargs), then the content of an entry with the
\* description
TransformConfigured ==
    /\ input.op = "configured" /\ output = Idle
    /\ output' =
          LET made == MakeConfig(input.kwargs)
              event == [uid |-> Str(<<"u">>), description |-> Str(input.description)]
          IN  IF made.raised = "none"
              THEN [op |-> "content", raised |-> "none",
                    content |-> transform_event(event, made.cfg)["content"].text]
              ELSE [op |-> "content", raised |-> made.raised, content |-> Empty]
    /\ UNCHANGED <<input, prior>>
    /\ UNCHANGED calls

\* desc = escape_commas(escape_semicolons(desc)), once and on its own result
EscapeDescription ==
    /\ input.op = "escape" /\ output = Idle
    /\ output' =
          LET once == escape_commas(escape_semicolons(input.description))
          IN  [op |-> "escaped", once |-> once,
               twice |-> escape_commas(escape_semicolons(once))]
    /\ UNCHANGED <<input, prior>>
    /\ UNCHANGED calls

NextTransform ==
    \/ TransformEvent \/ ParseLocation \/ TransformCalendar \/ TransformConfigured
    \/ EscapeDescription

SpecTransform == InitTransform /\ [][NextTransform]_vars

(***************************** title fallback ******************************)
\* A record of fill_title_fallback has the keys speaker, title and series; a
\* key the dict does not have is Absent, a key whose value is None is PyNone.
PyNone == <<"<None>">>

MAX_PREFIX_LEN == 128

\* One unit of text stands for a run of MAX_PREFIX_LEN - 2 characters 'X';
\* every other unit is one character. len(s):
LongRun == "X...X"
LowerRun == "x...x"
RECURSIVE CharLen(_)
CharLen(s) ==
    IF s = <<>> THEN 0
    ELSE (IF Head(s) \in {LongRun, LowerRun} THEN MAX_PREFIX_LEN - 2 ELSE 1)
         + CharLen(Tail(s))

\* ev.get(key)
Get(ev, key) == IF ev[key] = Absent THEN PyNone ELSE ev[key]

\* str(value)
StrOf(v) == IF v = PyNone THEN <<"N", "o", "n", "e">> ELSE v

\* s.lower(): every capital letter becomes its small letter, a run of 'X' a
\* run of 'x'
Capitals ==
    <<"A", "B", "C", "D", "E", "F", "G", "H", "I", "J", "K", "L", "M",
      "N", "O", "P", "Q", "R", "S", "T", "U", "V", "W", "X", "Y", "Z">>
Smalls ==
    <<"a", "b", "c", "d", "e", "f", "g", "h", "i", "j", "k", "l", "m",
      "n", "o", "p", "q", "r", "s", "t", "u", "v", "w", "x", "y", "z">>
LowerChar(c) ==
    IF c = LongRun THEN LowerRun
    ELSE IF \E k \in 1..Len(Capitals) : Capitals[k] = c
    THEN Smalls[CHOOSE k \in 1..Len(Capitals) : Capitals[k] = c]
    ELSE c
LowerStr(s) == [k \in 1..Len(s) |-> LowerChar(s[k])]

\* _is_missing without the 'TBD' test
is_missing_notbd(title_val) ==
    IF title_val = PyNone THEN TRUE ELSE Strip(StrOf(title_val)) = Empty

\* _is_missing(title_val)
is_missing(title_val) ==
    IF title_val = PyNone THEN TRUE
    ELSE IF Strip(StrOf(title_val)) = Empty THEN TRUE
    ELSE LowerStr(Strip(StrOf(title_val))) = <<"t", "b", "d">>

\* The units of a template are characters, braces and replacement fields;
\* the characters of a unit:
Fields == {"{series}", "{title}", "{venue}"}
Spell(u) ==
    IF u = "{series}" THEN <<"{", "s", "e", "r", "i", "e", "s", "}">>
    ELSE IF u = "{title}" THEN <<"{", "t", "i", "t", "l", "e", "}">>
    ELSE IF u = "{venue}" THEN <<"{", "v", "e", "n", "u", "e", "}">>
    ELSE <<u>>

\* the template as text
RawText(template) == Concat([k \in 1..Len(template) |-> Spell(template[k])])

\* the characters of a key of the record
KeyChars(key) ==
    IF key = "series" THEN <<"s", "e", "r", "i", "e", "s">>
    ELSE IF key = "title" THEN <<"t", "i", "t", "l", "e">>
    ELSE IF key = "speaker" THEN <<"s", "p", "e", "a", "k", "e", "r">>
    ELSE <<key>>

\* _SafeDict(ev)[name]: "" for a key the record does not have
SafeGet(ev, name) ==
    LET keys == {k \in DOMAIN ev : KeyChars(k) = name /\ ev[k] # Absent}
    IN  IF keys = {} THEN Empty ELSE StrOf(ev[CHOOSE k \in keys : TRUE])

\* the position of the first brace of s from i on, 0 if there is none
RECURSIVE NextBrace(_, _)
NextBrace(s, i) ==
    IF i > Len(s) THEN 0
    ELSE IF s[i] \in {"{", "}"} THEN i
    ELSE NextBrace(s, i + 1)

\* str.format_map on the text s from i on: a doubled brace is one literal
\* brace, "{name}" is the value of name; a single "}", a field that is not
\* closed, a "{" inside a field and the empty field "{}" raise ValueError
RECURSIVE Format(_, _, _)
Format(s, i, ev) ==
    IF i > Len(s) THEN [raised |-> FALSE, text |-> <<>>]
    ELSE IF s[i] \in {"{", "}"} /\ i < Len(s) /\ s[i + 1] = s[i]
    THEN LET rest == Format(s, i + 2, ev)
         IN  [raised |-> rest.raised, text |-> <<s[i]>> \o rest.text]
    ELSE IF s[i] = "}" THEN [raised |-> TRUE, text |-> <<>>]
    ELSE IF s[i] = "{"
    THEN LET j == NextBrace(s, i + 1) IN
         IF j = 0 \/ j = i + 1 \/ s[j] = "{" THEN [raised |-> TRUE, text |-> <<>>]
         ELSE LET rest == Format(s, j + 1, ev)
              IN  [raised |-> rest.raised,
                   text |-> SafeGet(ev, SubSeq(s, i + 1, j - 1)) \o rest.text]
    ELSE LET rest == Format(s, i + 1, ev)
         IN  [raised |-> rest.raised, text |-> <<s[i]>> \o rest.text]

\* raw_prefix_tmpl.format_map(_SafeDict(ev)) raises
Malformed(template, ev) == Format(RawText(template), 1, ev).raised

\* raw_prefix_tmpl.format_map(_SafeDict(ev))
FormatMap(template, ev) == Format(RawText(template), 1, ev).text

\* the rendered text left as it is
RenderPrefix_nocollapse(template, ev) ==
    IF template = Empty THEN Empty
    ELSE IF Malformed(template, ev) THEN RawText(template) ELSE FormatMap(template, ev)

\* prefix_rendered
RenderPrefix(template, ev) ==
    IF template = Empty THEN Empty
    ELSE Normalize(IF Malformed(template, ev) THEN RawText(template)
                   ELSE FormatMap(template, ev))

\* use_prefix
UsePrefix(prefix_rendered) ==
    prefix_rendered # Empty /\ CharLen(prefix_rendered) < MAX_PREFIX_LEN

\* the speaker appended to the title that is there
FillOne_append(ev, overwrite, template) ==
    LET speaker == Get(ev, "speaker")
        existing == Get(ev, "title")
    IN  IF speaker = PyNone \/ speaker = Empty THEN [ev |-> ev, set |-> FALSE]
        ELSE IF overwrite \/ is_missing(existing)
        THEN [ev |-> [ev EXCEPT !["title"] =
                        Strip((IF existing = PyNone THEN Empty ELSE existing)
                              \o <<" ">> \o StrOf(speaker))],
              set |-> TRUE]
        ELSE [ev |-> ev, set |-> FALSE]

\* one turn of the loop: the record and whether its title was set
FillOne(ev, overwrite, template) ==
    LET speaker == Get(ev, "speaker")
        existing == Get(ev, "title")
        prefix_rendered == RenderPrefix(template, ev)
        speaker_str == StrOf(speaker)
    IN  IF speaker = PyNone \/ speaker = Empty THEN [ev |-> ev, set |-> FALSE]
        ELSE IF overwrite \/ is_missing(existing)
        THEN [ev |-> [ev EXCEPT !["title"] =
                        IF UsePrefix(prefix_rendered)
                        THEN prefix_rendered \o <<" ">> \o speaker_str
                        ELSE speaker_str],
              set |-> TRUE]
        ELSE [ev |-> ev, set |-> FALSE]

\* fill_title_fallback(events, overwrite) with FALLBACK_PREPEND_TEXT = template
RECURSIVE FillLoop(_, _, _, _, _)
FillLoop(evs, k, count, overwrite, template) ==
    IF k > Len(evs) THEN [events |-> evs, count |-> count]
    ELSE LET one == FillOne(evs[k], overwrite, template)
         IN  FillLoop([evs EXCEPT ![k] = one.ev], k + 1,
                      IF one.set THEN count + 1 ELSE count, overwrite, template)

fill_title_fallback(evs, overwrite, template) == FillLoop(evs, 1, 0, overwrite, template)

\* ---- the fallback called on a list of records, and called again ------------
MaxTmplLen == 2
MaxRecords == 2

TmplUnits == {"P", " ", "{series}", "{title}", "{venue}", "{", "}"}

\* short templates, and templates around the maximum length: of one run of
\* characters, and with blanks that the rendering collapses
Templates ==
    UNION {[1..n -> TmplUnits] : n \in 0..MaxTmplLen}
    \cup {<<LongRun, "X">>, <<LongRun, "X", "X">>, <<LongRun, "X", "X", "X">>,
          <<LongRun, " ", " ", "X">>,
          <<" ", LongRun, "X", " ">>,
          <<LongRun, "X", "{venue}">>,
          <<LongRun, " ", "{venue}", " ", "X">>,
          <<"P", " ", "{series}", " ", "P">>,
          <<"P", " ", "{venue}", " ", "P">>,
          <<"{", " ", " ", "{series}">>}

FallbackRecords ==
    [speaker : {Absent, Empty, <<"A">>, <<"t", "b", "d">>},
     title : {Absent, PyNone, Empty, <<" ", "T", "B", "D", " ">>, <<"E">>, <<" ">>},
     series : {Absent, Empty, <<"S">>}]

ListRecords ==
    [speaker : {Empty, <<"A">>},
     title : {Empty, <<"t", "b", "d">>, <<"E">>},
     series : {<<"S">>}]

FallbackInputs ==
    {[op |-> "fallback", events |-> <<ev>>, overwrite |-> ow, template |-> t] :
        ev \in FallbackRecords, ow \in BOOLEAN, t \in Templates}
    \cup {[op |-> "fallback", events |-> evs, overwrite |-> ow, template |-> t] :
            evs \in UNION {[1..n -> ListRecords] : n \in 0..MaxRecords},
            ow \in BOOLEAN, t \in {Empty, <<"{series}", " ", "P">>}}

InitFallback ==
    /\ events = <<>>
    /\ session = EmptyDict
    /\ last = NoCall(events)
    /\ first = last
    /\ site = NoSite
    /\ changed = FALSE
    /\ input \in FallbackInputs
    /\ output = Idle
    /\ prior = Idle

FillTitles ==
    /\ input.op = "fallback" /\ output = Idle
    /\ output' = [op |-> "filled",
                  result |-> fill_title_fallback(input.events, input.overwrite, input.template)]
    /\ UNCHANGED <<input, prior>>
    /\ UNCHANGED calls

\* the same call once more, on the records as the first call left them
FillTitlesAgain ==
    /\ input.op = "fallback" /\ output # Idle /\ prior = Idle
    /\ prior' = [op |-> "first", result |-> output.result]
    /\ output' = [op |-> "filled",
                  result |-> fill_title_fallback(output.result.events, input.overwrite,
                                                 input.template)]
    /\ UNCHANGED input
    /\ UNCHANGED calls

NextFallback == FillTitles \/ FillTitlesAgain

SpecFallback == InitFallback /\ [][NextFallback]_vars

(***************************** command line ********************************)
\* argv is written as the function from the options given to their values
\* (a flag has the value ""), os.environ as the function from the variables
\* set to their values.
Options ==
    {"--ics-url", "--repo-variable", "--output", "--config", "--print-only",
     "--limit", "--enrich-titles", "--enrich-overwrite", "--enrich-content",
     "--enrich-content-overwrite", "--enrich-raw-details",
     "--enrich-raw-details-overwrite"}

\* int(value) of --limit
IntOf(s) == IF s = "0" THEN 0 ELSE IF s = "1" THEN 1 ELSE 2

\* p.parse_args(argv): an option the parser does not know ends the process
\* with status 2
parse_args(argv) ==
    [exit |-> IF DOMAIN argv \subseteq Options THEN 0 ELSE 2,
     enrich_titles |-> "--enrich-titles" \in DOMAIN argv,
     enrich_overwrite |-> "--enrich-overwrite" \in DOMAIN argv,
     enrich_content |-> "--enrich-content" \in DOMAIN argv,
     enrich_content_overwrite |-> "--enrich-content-overwrite" \in DOMAIN argv,
     enrich_raw_details |-> "--enrich-raw-details" \in DOMAIN argv,
     enrich_raw_details_overwrite |-> "--enrich-raw-details-overwrite" \in DOMAIN argv,
     print_only |-> "--print-only" \in DOMAIN argv,
     limit_given |-> "--limit" \in DOMAIN argv,
     limit |-> IF "--limit" \in DOMAIN argv THEN IntOf(argv["--limit"]) ELSE 0]

\* os.getenv(name, default)
Getenv(environ, name, default) ==
    IF name \in DOMAIN environ THEN environ[name] ELSE default

Truthy == {"1", "true", "yes", "on"}

enrichment_enabled(cli_flag, environ) ==
    cli_flag \/ Getenv(environ, "ENRICH_TITLES", "0") \in Truthy
enrichment_overwrite_enabled(cli_flag, environ) ==
    cli_flag \/ Getenv(environ, "ENRICH_OVERWRITE", "0") \in Truthy
enrichment_content_enabled(cli_flag, environ) ==
    cli_flag \/ Getenv(environ, "ENRICH_CONTENT", "0") \in Truthy
enrichment_content_overwrite_enabled(cli_flag, environ) ==
    cli_flag \/ Getenv(environ, "ENRICH_CONTENT_OVERWRITE", "0") \in Truthy
enrichment_raw_details_enabled(cli_flag, environ) ==
    cli_flag \/ Getenv(environ, "ENRICH_RAW_DETAILS", "0") \in Truthy
enrichment_raw_details_overwrite_enabled(cli_flag, environ) ==
    cli_flag \/ Getenv(environ, "ENRICH_RAW_DETAILS_OVERWRITE", "0") \in Truthy

\* A record of transform_calendar with the keys the later stages and the
\* output are read for; a URL is one unit of text.
TextAt(d, key) == IF key \in DOMAIN d THEN d[key].text ELSE Absent
AsRecord(d) ==
    [guid |-> TextAt(d, "guid"),
     urlRef |-> IF "urlRef" \notin DOMAIN d THEN NoUrl
                ELSE IF d["urlRef"].text = Empty THEN "" ELSE d["urlRef"].text[1],
     title |-> TextAt(d, "title"),
     content |-> TextAt(d, "content"),
     rawEventDetails |-> TextAt(d, "rawEventDetails"),
     speaker |-> TextAt(d, "speaker"),
     series |-> TextAt(d, "series")]
AsRecords(ds) == [k \in 1..Len(ds) |-> AsRecord(ds[k])]

\* what a run leaves: the exit status, the records written or printed, and
\* the lines on stderr
Ran(entry, exit, data, stderr) ==
    [op |-> "run", entry |-> entry, exit |-> exit, data |-> data, stderr |-> stderr]

\* generate_events_json(): fetch, transform with TransformConfig(), write
generate_events_json(environ, calendar) ==
    LET data == transform_calendar(calendar, TransformConfig)
    IN  Ran("generate_events_json", 0, AsRecords(data.events), <<>>)

\* data[: ns.limit]
Limited(data, n) == SubSeq(data, 1, IF n < Len(data) THEN n ELSE Len(data))

\* main(argv): pages answers the fetches of the three enrichment passes
main(argv, environ, calendar, pages) ==
    LET ns == parse_args(argv)
        net(evs) == [i \in {j \in 1..Len(evs) : UrlOf(evs[j]) # ""} |->
                        pages[UrlOf(evs[i])]]
        data == AsRecords(transform_calendar(calendar, TransformConfig).events)
        do_enrich == enrichment_enabled(ns.enrich_titles, environ)
        overwrite == enrichment_overwrite_enabled(ns.enrich_overwrite, environ)
        titled ==
            IF do_enrich
            THEN fill_title_fallback(
                     enrich_titles(data, TRUE, NoCache, overwrite, net(data)).events,
                     FALSE, Getenv(environ, "FALLBACK_PREPEND_TEXT", Empty)).events
            ELSE data
        do_content_enrich == enrichment_content_enabled(ns.enrich_content, environ)
        content_overwrite ==
            enrichment_content_overwrite_enabled(ns.enrich_content_overwrite, environ)
        bodied ==
            IF do_content_enrich
            THEN enrich_content(titled, TRUE, NoCache, content_overwrite, net(titled)).events
            ELSE titled
        do_raw_enrich == enrichment_raw_details_enabled(ns.enrich_raw_details, environ)
        raw_overwrite ==
            enrichment_raw_details_overwrite_enabled(ns.enrich_raw_details_overwrite, environ)
        detailed ==
            IF do_raw_enrich
            THEN enrich_raw_details(bodied, TRUE, NoCache, raw_overwrite, net(bodied)).events
            ELSE bodied
    IN  IF ns.exit # 0 THEN Ran("main", ns.exit, <<>>, <<"usage">>)
        ELSE Ran("main", 0,
                 IF ns.limit_given THEN Limited(detailed, ns.limit) ELSE detailed,
                 <<>>)

\* ---- runs of the two entry points ------------------------------------------
MaxCalendar == 2

\* calendar entries of two series, with and without a name and a page
MainEntries ==
    {[uid |-> Str(<<"uid-1">>), begin |-> Instant(1), name |-> Str(<<"A">>),
      categories |-> TagList(<<<<"Keep Me">>>>), url |-> Str(<<"u1">>)],
     [uid |-> Str(<<"uid-2">>), begin |-> Instant(2), name |-> Str(<<"A">>),
      categories |-> TagList(<<<<"FPO">>>>), url |-> None],
     [uid |-> Str(<<"uid-3">>), begin |-> Instant(1), name |-> Str(<<"T", "B", "D">>),
      categories |-> TagList(<<<<"Keep Me">>>>), url |-> Str(<<"u2">>)],
     [uid |-> Str(<<"uid-4">>), begin |-> Instant(2), name |-> None,
      categories |-> TagList(<<<<"FPO">>>>), url |-> Str(<<"u1">>)]}
MainCalendars == UNION {[1..n -> MainEntries] : n \in 0..MaxCalendar}

\* the event pages: a page with a subtitle and a body, a page without, and
\* a page whose fetch fails
MainPages ==
    {[u \in {"u1", "u2"} |-> [status |-> "ok", container |-> <<"a">>]],
     [u \in {"u1", "u2"} |-> [status |-> "ok", container |-> Absent]],
     [u \in {"u1", "u2"} |-> IF u = "u1" THEN [status |-> "broken", container |-> Absent]
                             ELSE [status |-> "ok", container |-> <<" ">>]]}

Flags(names) == [o \in names |-> ""]
Put(f, k, v) == [x \in (DOMAIN f) \cup {k} |-> IF x = k THEN v ELSE f[x]]
MainArgvs ==
    LET passes == {Flags(s \cup {"--print-only"}) :
                     s \in SUBSET {"--enrich-titles", "--enrich-content",
                                   "--enrich-raw-details"}}
    IN  passes
        \cup {Put(a, "--exclude-series", "FPO") : a \in passes}
        \cup {Put(Flags({"--enrich-titles", "--print-only"}), o, "") :
                o \in {"--enrich-overwrite", "--enrich-content-overwrite",
                       "--enrich-raw-details-overwrite"}}
        \cup {Put(Flags({"--print-only"}), "--limit", "1")}
MainEnvirons ==
    {Flags({}), [v \in {"EXCLUDE_SERIES"} |-> "FPO"], [v \in {"ENRICH_TITLES"} |-> "yes"],
     [v \in {"ENRICH_CONTENT"} |-> "no"]}

MainInputs ==
    {[op |-> "main", argv |-> a, environ |-> e, calendar |-> c] :
        a \in MainArgvs, e \in MainEnvirons, c \in MainCalendars}
    \cup {[op |-> "generate", environ |-> e, calendar |-> c] :
            e \in MainEnvirons, c \in MainCalendars}

InitMain ==
    /\ events = <<>>
    /\ session = EmptyDict
    /\ last = NoCall(events)
    /\ first = last
    /\ site \in MainPages
    /\ changed = FALSE
    /\ input \in MainInputs
    /\ output = Idle
    /\ prior = Idle

GenerateEventsJson ==
    /\ input.op = "generate" /\ output = Idle
    /\ output' = generate_events_json(input.environ, input.calendar)
    /\ UNCHANGED <<input, prior>>
    /\ UNCHANGED calls

Main ==
    /\ input.op = "main" /\ output = Idle
    /\ output' = main(input.argv, input.environ, input.calendar, site)
    /\ UNCHANGED <<input, prior>>
    /\ UNCHANGED calls

NextMain == GenerateEventsJson \/ Main

SpecMain == InitMain /\ [][NextMain]_vars

(***************************** content body location ***********************)
\* The parsed page of fetch_content_body: an element has a name, a set of
\* classes and an id; the nodes are addressed by paths as above.
PageTag(name, cls, id, kids) ==
    [name |-> name, cls |-> cls, id |-> id, text |-> <<>>, kids |-> kids]
PageString(s) == [name |-> "#text", cls |-> {}, id |-> "", text |-> s, kids |-> <<>>]

\* the first path of a sequence in document order, None as NoPath
FirstPath(paths) == IF paths = <<>> THEN NoPath ELSE Head(paths)

\* a or b
OrElse(a, b) == IF a # NoPath THEN a ELSE b

\* soup.select_one("div.<class>"), soup.find("div", class_=<class>)
FindDivClass(soup, class) ==
    FirstPath(SelectSeq(Descendants(soup, <<>>, 1),
                        LAMBDA p : NodeAt(soup, p).name = "div"
                                   /\ class \in NodeAt(soup, p).cls))

\* soup.find("div", id=<id>)
FindDivId(soup, id) ==
    FirstPath(SelectSeq(Descendants(soup, <<>>, 1),
                        LAMBDA p : NodeAt(soup, p).name = "div" /\ NodeAt(soup, p).id = id))

\* soup.find(<name>)
FindName(soup, name) ==
    FirstPath(SelectSeq(Descendants(soup, <<>>, 1), LAMBDA p : NodeAt(soup, p).name = name))

\* container.select_one(".details"): below the container
SelectDetails(soup, container) ==
    FirstPath(SelectSeq(Descendants(soup, container, 1),
                        LAMBDA p : "details" \in NodeAt(soup, p).cls))

\* the nodes after the start of an element in document order
NextElements(soup, path) ==
    LET all == Descendants(soup, <<>>, 1)
        at == CHOOSE k \in 1..Len(all) : all[k] = path
    IN  SubSeq(all, at + 1, Len(all))

\* header.find_next("div", class_=<class>)
FindNextDivClass(soup, header, class) ==
    FirstPath(SelectSeq(NextElements(soup, header),
                        LAMBDA p : NodeAt(soup, p).name = "div"
                                   /\ class \in NodeAt(soup, p).cls))

\* header.find_next("div")
FindNextDiv(soup, header) ==
    FirstPath(SelectSeq(NextElements(soup, header),
                        LAMBDA p : NodeAt(soup, p).name = "div"))

\* specific
SpecificAfter(soup, header) ==
    OrElse(FindNextDivClass(soup, header, "tex2jax_process"),
    OrElse(FindNextDivClass(soup, header, "field__item"),
    OrElse(FindNextDivClass(soup, header, "field--name-field-ps-body"),
           FindNextDiv(soup, header))))

\* 1) Preferred structure: details within events-detail-main
PreferredFragment(soup) ==
    LET container == OrElse(FindDivClass(soup, "events-detail-main"),
                            FindDivClass(soup, "event-details-main"))
        header == SelectDetails(soup, container)
    IN  IF container = NoPath THEN NoPath
        ELSE IF header # NoPath THEN SpecificAfter(soup, header)
        ELSE container

\* 2) Generic fallbacks
GenericFragment(soup) ==
    OrElse(FindDivClass(soup, "event-description"),
    OrElse(FindDivClass(soup, "event-body"),
    OrElse(FindDivClass(soup, "field--name-body"),
    OrElse(FindDivId(soup, "content-body"),
           FindName(soup, "article")))))

\* the generic containers tried before the details container
LocateFragment_genericfirst(soup) ==
    OrElse(GenericFragment(soup), PreferredFragment(soup))

\* fragment
LocateFragment(soup) ==
    OrElse(PreferredFragment(soup), GenericFragment(soup))

\* _to_text(el) on a fragment whose strings have no line breaks: the strings
\* stripped, the empty ones dropped, joined by a blank line
to_text(soup, el) ==
    LET below == SelectSeq(Descendants(soup, el, 1),
                           LAMBDA p : NodeAt(soup, p).name = "#text")
        kept == SelectSeq(below, LAMBDA p : Strip(NodeAt(soup, p).text) # Empty)
    IN  Join(<<"\n", "\n">>, [k \in 1..Len(kept) |-> Normalize(NodeAt(soup, kept[k]).text)])

\* fetch_content_body from the parsed page on, ENRICH_CONTENT_FORMAT unset
ContentBody(soup) ==
    LET fragment == LocateFragment(soup)
    IN  [fragment |-> fragment,
         body |-> IF fragment = NoPath THEN Empty ELSE to_text(soup, fragment)]

\* ---- pages -----------------------------------------------------------------
MaxPageBlocks == 3

Leaf(name, cls, id, s) == PageTag(name, cls, id, <<PageString(s)>>)
Header == Leaf("h2", {"details"}, "", <<"h">>)
Wrapper(class) == Leaf("div", {class, "clearfix"}, "", <<"a", " ", " ", "b">>)
PlainDiv == Leaf("div", {}, "", <<"c">>)

\* what a details container of the primary class holds
ContainerKids ==
    {<<>>, <<Header>>,
     <<Header, Wrapper("field__item"), Wrapper("tex2jax_process")>>,
     <<Wrapper("tex2jax_process"), Header, PlainDiv,
       Wrapper("field--name-field-ps-body")>>}

\* the blocks of a page: details containers of both classes, an article that
\* wraps one, and the generic containers
PageBlocks ==
    {PageTag("div", {"events-detail-main"}, "", kids) : kids \in ContainerKids}
    \cup {PageTag("div", {"event-details-main"}, "", <<PageString(<<"a">>)>>)}
    \cup {PageTag("article", {}, "",
                  <<PageTag("div", {"events-detail-main"}, "",
                            <<Header, Wrapper("tex2jax_process")>>)>>)}
    \cup {Wrapper(c) : c \in {"event-description", "event-body", "field--name-body"}}
    \cup {Leaf("div", {}, "content-body", <<"d">>), Leaf("article", {}, "", <<"e">>)}

Pages ==
    {PageTag("[document]", {}, "", blocks) :
        blocks \in UNION {[1..n -> PageBlocks] : n \in 0..MaxPageBlocks}}

InitLocate ==
    /\ events = <<>>
    /\ session = EmptyDict
    /\ last = NoCall(events)
    /\ first = last
    /\ site = NoSite
    /\ changed = FALSE
    /\ input \in {[op |-> "page", soup |-> s] : s \in Pages}
    /\ output = Idle
    /\ prior = Idle

LocateContentBody ==
    /\ input.op = "page" /\ output = Idle
    /\ output' = [op |-> "located", found |-> ContentBody(input.soup)]
    /\ UNCHANGED <<input, prior>>
    /\ UNCHANGED calls

NextLocate == LocateContentBody

SpecLocate == InitLocate /\ [][NextLocate]_vars

(***************************** properties **********************************)
\* vocabulary of the properties: what the last call saw and did
FetchCall == last.kind \in Kinds /\ last.enable
ExtractCall == last.kind = "raw_extracts" /\ last.enable
Records == 1..Len(last.before)
UrlAt(i) == UrlOf(last.before[i])
Target == Field(last.kind)
Untouched(i) == events[i] = last.before[i]
Count(seq, x) == Cardinality({k \in 1..Len(seq) : seq[k] = x})
\* absent, empty or whitespace-only
Blank(v) == v = Absent \/ \A k \in 1..Len(v) : v[k] = " "
\* the iteration for record i fetched and the network answered with status st
Fetched(i, st) == last.log[i].via = "fetch" /\ last.log[i].resp.status = st

\* C1: within one call of enrich_titles / enrich_content / enrich_raw_details
\* every URL is fetched at most once; a later record with the same URL takes
\* its value from the cache without fetching, also the empty value cached
\* after a miss or an exception; records sharing a URL are offered the same
\* value.
C1_OneFetchPerUrl ==
    FetchCall =>
        /\ \A u \in UrlValues : Count(last.fetches, u) <= 1
        /\ Len(last.fetches) = Cardinality({i \in Records : last.log[i].via = "fetch"})
        /\ \A i \in Records : \A j \in 1..(i - 1) :
              (UrlAt(i) # "" /\ UrlAt(i) = UrlAt(j)) =>
                  /\ last.log[i].via = "cache"
                  /\ last.log[i].value = last.log[j].value
                  /\ last.log[j].path \in {"miss", "error"} => last.log[i].path = "miss"

C1_Witness ==
    /\ FetchCall
    /\ \E i \in Records : \E j \in 1..(i - 1) :
          /\ UrlAt(i) = UrlAt(j) /\ UrlAt(i) # ""
          /\ Fetched(j, "broken")
          /\ last.log[i].via = "cache" /\ last.log[i].path = "miss"
    /\ Len(last.fetches) = 1 /\ last.stats.attempted = 2

\* C2: a target field is written only when a non-empty value was obtained
\* for the record.  After a fetch miss (transport failure, bad status, no
\* container, empty or whitespace-only text), an exception, or an empty
\* cached value the record is as before, whatever overwrite is; it is not
\* counted as updated, and only exceptions are counted as errors.  The same
\* for the two sub-fields of enrich_raw_extracts.
C2_NoValueNoWrite ==
    /\ FetchCall =>
          /\ \A i \in Records :
                /\ (\/ UrlAt(i) = ""
                    \/ Fetched(i, "neterr") \/ Fetched(i, "badstatus") \/ Fetched(i, "broken")
                    \/ (Fetched(i, "ok") /\ Blank(last.log[i].resp.container))
                    \/ (last.log[i].via = "cache" /\ last.log[i].value = Empty))
                   => (Untouched(i) /\ last.log[i].path # "written")
                /\ ~Untouched(i) =>
                       (events[i][Target] = last.log[i].value /\ ~Blank(last.log[i].value))
          /\ last.stats.updated = Cardinality({i \in Records : last.log[i].path = "written"})
          /\ last.stats.updated >= Cardinality({i \in Records : ~Untouched(i)})
          /\ last.stats.errors = Cardinality({i \in Records : Fetched(i, "broken")})
    /\ ExtractCall =>
          /\ \A i \in Records :
                LET doc == last.before[i].rawEventDetails IN
                /\ (Blank(doc) \/ last.log[i].abstract = "error"
                        \/ extract_abstract_from_raw_details(doc) = Empty)
                   => events[i].rawExtractAbstract = last.before[i].rawExtractAbstract
                /\ (Blank(doc) \/ last.log[i].bio = "error"
                        \/ extract_bio_from_raw_details(doc) = Empty)
                   => events[i].rawExtractBio = last.before[i].rawExtractBio
          /\ last.stats.updated_abstract =
                Cardinality({i \in Records : last.log[i].abstract = "written"})
          /\ last.stats.updated_bio =
                Cardinality({i \in Records : last.log[i].bio = "written"})
          /\ last.stats.errors =
                Cardinality({i \in Records : last.log[i].abstract = "error"})
                + Cardinality({i \in Records : last.log[i].bio = "error"})

C2_Witness ==
    /\ FetchCall /\ last.overwrite
    /\ \E i \in Records :
          /\ Fetched(i, "ok") /\ last.log[i].resp.container = <<" ">>
          /\ last.before[i][Target] = <<"a">>
          /\ events[i][Target] = <<"a">>
    /\ \E i \in Records : Fetched(i, "neterr") /\ Blank(last.before[i][Target])
    /\ last.stats.updated = 0 /\ last.stats.errors = 0

\* C3: when a non-empty value is obtained for a record, the target field
\* becomes that value if overwrite is on or the existing value is absent,
\* empty or whitespace-only, and otherwise the record is left as it was.
C3_OverwritePolicy ==
    FetchCall =>
        \A i \in Records :
            (last.log[i].via \in {"fetch", "cache"} /\ last.log[i].value # Empty) =>
                IF last.overwrite \/ Blank(last.before[i][Target])
                THEN /\ events[i] = [last.before[i] EXCEPT ![Target] = last.log[i].value]
                     /\ last.log[i].path = "written"
                ELSE /\ Untouched(i)
                     /\ last.log[i].path = "kept"

C3_Witness ==
    /\ FetchCall /\ ~last.overwrite
    /\ \E i \in Records :
          /\ last.before[i][Target] = <<" ">>
          /\ last.log[i].value # Empty /\ events[i][Target] = last.log[i].value
    /\ \E i \in Records :
          /\ last.before[i][Target] = <<"a">>
          /\ last.log[i].via = "fetch" /\ last.log[i].value = <<"b", " ", "c">>
          /\ Untouched(i)

\* two runs of the same fetch pipeline in succession, both with overwrite off
TwoRunsNoOverwrite ==
    /\ first.kind \in Kinds /\ last.kind = first.kind
    /\ ~first.overwrite /\ ~last.overwrite

\* C4 as stated: the second of two runs with overwrite=false changes no
\* record and reports updated = 0.
C4_SecondRunNoChange ==
    TwoRunsNoOverwrite => (events = last.before /\ last.stats.updated = 0)

\* C4 amended: the second of two runs of the same pipeline with
\* overwrite=false never changes a record whose field is populated after the
\* first run; and when every URL answers the second run as it answered the
\* first, the second run changes no record and reports updated = 0.
C4_Idempotent ==
    TwoRunsNoOverwrite =>
        /\ \A i \in Records : ~Blank(last.before[i][Target]) => Untouched(i)
        /\ ~changed => (events = last.before /\ last.stats.updated = 0)
        /\ last.stats.updated = Cardinality({i \in Records : ~Untouched(i)})

C4_Witness ==
    /\ TwoRunsNoOverwrite /\ changed
    /\ first.stats.updated > 0
    /\ last.fetches # <<>>
    /\ events = last.before /\ last.stats.updated = 0

\* C5: an exception while fetching for a record adds one to errors, caches
\* the empty result for the URL, leaves the record as it was, and the loop
\* goes on: every record of the list is processed by the call.
C5_ErrorIsolated ==
    FetchCall =>
        /\ Len(last.log) = Len(last.before) /\ Len(events) = Len(last.before)
        /\ \A i \in Records :
              Fetched(i, "broken") =>
                  /\ Untouched(i)
                  /\ last.log[i].path = "error"
                  /\ UrlAt(i) \in DOMAIN last.cache /\ last.cache[UrlAt(i)] = Empty
                  /\ \A j \in Records :
                        (j > i /\ UrlAt(j) # "") =>
                            IF \/ \E k \in 1..(j - 1) : UrlAt(k) = UrlAt(j)
                               \/ UrlAt(j) \in DOMAIN last.cache0
                            THEN last.log[j].via = "cache"
                            ELSE last.log[j].via = "fetch"
        /\ last.stats.errors = Cardinality({i \in Records : Fetched(i, "broken")})
        /\ last.stats.attempted + last.stats.skipped_missing_url = Len(last.before)

C5_Witness ==
    /\ FetchCall /\ Len(last.before) >= 2
    /\ Fetched(1, "broken") /\ Untouched(1)
    /\ last.log[2].path = "written" /\ last.log[2].via = "fetch"
    /\ last.stats.errors = 1 /\ last.stats.updated = 1

\* C6 as stated: a transport failure or a non-2xx response during a fetch
\* leaves the record as it was and is counted in the errors counter.
C6_TransportFailureCounted ==
    FetchCall =>
        /\ \A i \in Records :
              (Fetched(i, "neterr") \/ Fetched(i, "badstatus")) => Untouched(i)
        /\ last.stats.errors >=
              Cardinality({i \in Records : Fetched(i, "neterr") \/ Fetched(i, "badstatus")})

\* what a sub-field of a record with details must be after the call, given
\* the outcome logged for it and what its extractor finds in the details
SubFieldAfter(outcome, overwrite, existing, found) ==
    /\ (outcome = "guarded") = ~(overwrite \/ Blank(existing))
    /\ outcome # "skip"
    /\ outcome \in {"written", "empty"} => (outcome = "written") = (found # Empty)

\* C7: in enrich_raw_extracts each sub-field of a record with details is
\* decided on its own existing value and its own extraction: an exception in
\* the abstract extraction is counted, leaves rawExtractAbstract as it was,
\* and the bio extraction still runs and writes rawExtractBio; likewise the
\* other way round.
C7_SubFieldsIndependent ==
    ExtractCall =>
        /\ \A i \in Records :
              LET before == last.before[i]
                  doc == before.rawEventDetails
                  a == extract_abstract_from_raw_details(doc)
                  b == extract_bio_from_raw_details(doc)
              IN  ~Blank(doc) =>
                  /\ SubFieldAfter(last.log[i].abstract, last.overwrite,
                                   before.rawExtractAbstract, a)
                  /\ SubFieldAfter(last.log[i].bio, last.overwrite,
                                   before.rawExtractBio, b)
                  /\ events[i].rawExtractAbstract =
                        IF last.log[i].abstract = "written" THEN a
                        ELSE before.rawExtractAbstract
                  /\ events[i].rawExtractBio =
                        IF last.log[i].bio = "written" THEN b
                        ELSE before.rawExtractBio
        /\ last.stats.errors =
              Cardinality({i \in Records : last.log[i].abstract = "error"})
              + Cardinality({i \in Records : last.log[i].bio = "error"})

C7_Witness ==
    /\ ExtractCall
    /\ \E i \in Records :
          /\ last.log[i].abstract = "error" /\ last.log[i].bio = "written"
          /\ events[i].rawExtractBio = <<"b">>
          /\ events[i].rawExtractAbstract = last.before[i].rawExtractAbstract
    /\ \E i \in Records : last.log[i].bio = "error" /\ last.log[i].abstract = "written"
    /\ last.stats.errors = 2

\* C8: in enrich_raw_extracts a record whose rawEventDetails is missing,
\* empty or whitespace-only is counted in skipped_missing_details and not in
\* attempted, and is left as it was; every other record is counted in
\* attempted once.
C8_MissingDetailsSkipped ==
    ExtractCall =>
        /\ last.stats.skipped_missing_details =
              Cardinality({i \in Records : Blank(last.before[i].rawEventDetails)})
        /\ last.stats.attempted =
              Cardinality({i \in Records : ~Blank(last.before[i].rawEventDetails)})
        /\ \A i \in Records :
              Blank(last.before[i].rawEventDetails) =>
                  /\ Untouched(i)
                  /\ last.log[i] = [abstract |-> "skip", bio |-> "skip"]

C8_Witness ==
    /\ ExtractCall /\ last.overwrite
    /\ \E i \in Records :
          /\ last.before[i].rawEventDetails = <<" ">>
          /\ last.before[i].rawExtractAbstract = Absent
          /\ Untouched(i)
    /\ \E i \in Records : last.log[i].abstract = "written"
    /\ last.stats.skipped_missing_details = 1 /\ last.stats.attempted = 1

\* the records of the last call that carry URL u
WithUrl(u) == {i \in Records : UrlAt(i) = u}

\* C9 as stated: whatever calls came before, a call fetches each of its
\* distinct URLs itself.
C9_EveryCallFetchesItself ==
    FetchCall =>
        \A u \in UrlValues \ {""} : WithUrl(u) # {} => Count(last.fetches, u) = 1

\* C9 amended: a call that is given no session_cache fetches each of its
\* distinct URLs itself, once, and writes only values extracted from its own
\* fetches; a call that is given the caller's dict does not fetch the URLs
\* the dict holds, offers the held values to its records, and leaves its own
\* results in the dict.
C9_CacheScope ==
    FetchCall =>
        /\ ~last.given =>
              /\ \A u \in UrlValues \ {""} :
                    WithUrl(u) # {} => Count(last.fetches, u) = 1
              /\ \A i \in Records :
                    last.log[i].path = "written" =>
                        \E j \in 1..i :
                            /\ UrlAt(j) = UrlAt(i) /\ last.log[j].via = "fetch"
                            /\ events[i][Target] = Fetch(last.kind, last.log[j].resp).value
              /\ session = IF first.given THEN first.cache ELSE EmptyDict
        /\ last.given =>
              /\ \A i \in Records :
                    UrlAt(i) \in DOMAIN last.cache0 =>
                        /\ last.log[i].via = "cache"
                        /\ last.log[i].value = last.cache0[UrlAt(i)]
              /\ \A u \in DOMAIN last.cache0 :
                    Count(last.fetches, u) = 0 /\ last.cache[u] = last.cache0[u]
              /\ session = last.cache

C9_Witness ==
    /\ first.kind \in Kinds /\ first.given /\ first.fetches # <<>>
    /\ FetchCall /\ ~last.given /\ last.kind # first.kind
    /\ last.fetches # <<>>
    /\ \E i \in Records : last.log[i].path = "written"
    /\ session = first.cache /\ \E u \in DOMAIN session : session[u] # Empty

\* C10: a call with enable=False does nothing: no fetch, no record changed,
\* the supplied cache as it was, every counter of the returned stats 0.
C10_DisabledNoOp ==
    (last.kind # "none" /\ ~last.enable) =>
        /\ events = last.before
        /\ last.fetches = <<>> /\ last.log = <<>>
        /\ last.cache = last.cache0
        /\ last.given => session = last.cache0
        /\ last.stats = IF last.kind = "raw_extracts" THEN ZeroExtractStats ELSE ZeroStats

C10_Witness ==
    /\ last.kind \in Kinds /\ ~last.enable /\ last.overwrite
    /\ last.given /\ session = last.cache0 /\ session # EmptyDict
    /\ \E i \in Records : UrlAt(i) = "u2" /\ Blank(last.before[i][Target])
    /\ events = last.before

(***************************** marker extractors ***************************)
\* vocabulary: the document just extracted from, and the two results
Extracted == output.op = "extract"
Soup == BeautifulSoup(Html(input))
Words == {"Abstract", "Bio"}
ResultFor(word) == IF word = "Abstract" THEN output.abstract ELSE output.bio
Found(word) == ResultFor(word).strategy # "none"
MarkerNode(word) == NodeAt(Soup, ResultFor(word).path)
Min(S) == CHOOSE k \in S : \A h \in S : k <= h
NonEmpty(texts) == SelectSeq(texts, LAMBDA t : t # <<>>)

\* the text of the siblings that follow child k, up to the first h1..h6
TextUntilHeading(kids, k) ==
    LET heads == {j \in (k + 1)..Len(kids) : kids[j].name \in HeadingNames}
        stop == IF heads = {} THEN Len(kids) + 1 ELSE Min(heads)
        texts == [j \in 1..(stop - k - 1) |-> GetText(kids[k + j])]
    IN  Strip(JoinSp(NonEmpty(texts)))

\* C11 as stated: when the marker found is a heading, the result is the
\* space-joined, trimmed text of its following siblings up to (excluding) the
\* first h1..h6 sibling or the end; nothing else stops the collection.
C11_HeadingSectionText ==
    Extracted =>
        \A word \in Words :
            (Found(word) /\ MarkerNode(word).name \in HeadingNames) =>
                LET path == ResultFor(word).path IN
                ResultFor(word).text =
                    TextUntilHeading(NodeAt(Soup, ParentOf(path)).kids, path[Len(path)])

\* the text after the first "word:" of an element's text, trimmed
TextAfterColon(node, word) ==
    LET text == GetText(node)
        pos == Find(Lower(text), <<LowerUnit(word), ":">>)
    IN  IF pos = 0 THEN Empty ELSE Strip(SubSeq(text, pos + 2, Len(text)))

\* C12 as stated: when the marker is found as a colon pattern (in a string,
\* or with the word wrapped in inline tags), the result is the text after
\* the word and colon inside the marker element, whatever element it is;
\* siblings are not walked.
C12_ColonTextOnly ==
    Extracted =>
        \A word \in Words :
            ResultFor(word).strategy \in {"colon", "wrapped"} =>
                ResultFor(word).text = TextAfterColon(MarkerNode(word), word)

\* the strings and the elements of the document, in document order
AllStrings == Strings(Soup)
AllTags == Tags(Soup)
ColonStrings(word) ==
    {k \in 1..Len(AllStrings) : Contains(NodeAt(Soup, AllStrings[k]).text, <<word, ":">>)}
WordHeadings(word) ==
    {k \in 1..Len(AllTags) :
        /\ NodeAt(Soup, AllTags[k]).name \in HeadingNames
        /\ Lower(GetText(NodeAt(Soup, AllTags[k]))) = <<LowerUnit(word)>>}

\* the document made of some of the blocks of the input
DocOf(blocks) == Html([input EXCEPT !.blocks = blocks])

\* the blocks in which, taken alone, the search that won finds the marker
Occurrences(word) ==
    {j \in 1..Len(input.blocks) :
        Extraction(DocOf(<<input.blocks[j]>>), word).strategy = ResultFor(word).strategy}

\* C13 as stated: the marker is searched in a fixed order, first match wins:
\* the first string containing "Word:", else the first wrapped match, else
\* the first heading whose text is the word in any case, else the result is
\* empty; and when the marker occurs several times only the first occurrence
\* contributes: the result is what the document gives without the later
\* occurrences and what follows them.
C13_FirstOccurrenceOnly ==
    Extracted =>
        \A word \in Words :
            LET r == ResultFor(word) IN
            /\ IF ColonStrings(word) # {}
               THEN /\ r.strategy = "colon"
                    /\ r.path = ParentOf(AllStrings[Min(ColonStrings(word))])
               ELSE IF WrappedMarker(Soup, word) # NoPath
               THEN r.strategy = "wrapped" /\ r.path = WrappedMarker(Soup, word)
               ELSE IF WordHeadings(word) # {}
               THEN r.strategy = "heading" /\ r.path = AllTags[Min(WordHeadings(word))]
               ELSE r.strategy = "none" /\ r.text = Empty
            /\ (Found(word) /\ Cardinality(Occurrences(word)) >= 2) =>
                   LET later == Min(Occurrences(word) \ {Min(Occurrences(word))}) IN
                   r.text = Extraction(DocOf(SubSeq(input.blocks, 1, later - 1)), word).text

\* the second search as the claim has it: the nearest block ancestor of the
\* first string that contains the word in any case and whose ancestor's
\* lower-cased text contains "word:"
ClaimedWrappedMarker(word) ==
    LET accepted == {k \in 1..Len(AllStrings) :
            /\ Contains(Lower(NodeAt(Soup, AllStrings[k]).text), <<LowerUnit(word)>>)
            /\ LET anc == BlockAncestor(Soup, ParentOf(AllStrings[k])) IN
               /\ anc # NoPath
               /\ Contains(Lower(GetText(NodeAt(Soup, anc))), <<LowerUnit(word), ":">>)}
    IN  IF accepted = {} THEN NoPath
        ELSE BlockAncestor(Soup, ParentOf(AllStrings[Min(accepted)]))

\* C14 as stated: when no string contains "Word:", a string whose lower-cased
\* form contains the word is a candidate, and its nearest p/div/section/
\* article ancestor is the marker exactly when that ancestor's lower-cased
\* text contains "word:".
C14_WrappedAnyCase ==
    Extracted =>
        \A word \in Words :
            ColonStrings(word) = {} =>
                IF ClaimedWrappedMarker(word) # NoPath
                THEN /\ ResultFor(word).strategy = "wrapped"
                     /\ ResultFor(word).path = ClaimedWrappedMarker(word)
                ELSE ResultFor(word).strategy # "wrapped"

\* the document was extracted from, its two sections were swapped, and the
\* swapped document was extracted from
Reordered == Extracted /\ prior.op = "before"

\* a heading-structured document of two sections: both markers are found as
\* headings, before and after the swap, and these are its only headings
HeadingStructured ==
    /\ \A r \in {prior.abstract, prior.bio, output.abstract, output.bio} :
          r.strategy = "heading"
    /\ Cardinality({k \in 1..Len(AllTags) :
                       NodeAt(Soup, AllTags[k]).name \in HeadingNames}) = 2

\* the two sections of the swapped document
SecondSection == SubSeq(input.blocks, Len(input.blocks) - prior.split + 2, Len(input.blocks))
FirstSection == SubSeq(input.blocks, 1, Len(input.blocks) - prior.split + 1)

\* the section that the heading of the word opens
SectionOf(word) ==
    IF Extraction(DocOf(FirstSection), word).strategy = "heading"
    THEN FirstSection ELSE SecondSection

\* C15: for a heading-structured document of an Abstract section and a Bio
\* section, each extractor returns the same text whichever section comes
\* first, and that text is the text of its own section alone.
C15_OrderIndependent ==
    (Reordered /\ HeadingStructured) =>
        /\ output.abstract.text = prior.abstract.text
        /\ output.bio.text = prior.bio.text
        /\ \A word \in Words :
              ResultFor(word).text = Extraction(DocOf(SectionOf(word)), word).text
        /\ SectionOf("Abstract") # SectionOf("Bio")

C15_Witness ==
    /\ Reordered /\ HeadingStructured
    /\ output.abstract.text = <<"a">> /\ output.bio.text = <<"d">>
    /\ prior.abstract.text = <<"a">> /\ prior.bio.text = <<"d">>
    /\ input.blocks[1][2] = "Bio"

(***************************** calendar record mapper **********************)
\* vocabulary
TransformedRecord == output.op = "record"
MappingTargets(cfg) == {cfg.field_mappings[k][2] : k \in 1..Len(cfg.field_mappings)}
PlaceholderKeys(cfg) == {cfg.placeholders[k][1] : k \in 1..Len(cfg.placeholders)}
IsLocationObject(v) == v.kind = "loc" /\ DOMAIN v = {"kind", "name", "id", "detail"}

\* C16: for every calendar entry and every configuration, the record returned
\* by transform_event contains every output key named in the field mapping and
\* every placeholder key, and a location object with exactly the keys name, id
\* and detail; every other value is a string.
C16_AllKeysPresent ==
    TransformedRecord =>
        LET r == output.record
        IN  /\ MappingTargets(input.cfg) \subseteq DOMAIN r
            /\ PlaceholderKeys(input.cfg) \subseteq DOMAIN r
            /\ "location" \in DOMAIN r /\ IsLocationObject(r["location"])
            /\ \A k \in DOMAIN r \ {"location"} : r[k].kind = "str"

\* the mappings that produce key k for the entry: source present and unmasked
MappedSources(event, cfg, k) ==
    {i \in 1..Len(cfg.field_mappings) :
        /\ cfg.field_mappings[i][2] = k
        /\ cfg.field_mappings[i][1] \notin cfg.masked_fields
        /\ GetAttr(event, cfg.field_mappings[i][1]) # None}

\* the value mapping produces for key k: that of the last such mapping
MappedValue(event, cfg, k) ==
    LET S == MappedSources(event, cfg, k)
        i == CHOOSE m \in S : \A n \in S : n <= m
        attr == cfg.field_mappings[i][1]
    IN  Str(Converted(GetAttr(event, attr), attr, cfg))

CopyTargets(cfg) == {cfg.copies[k][1] : k \in 1..Len(cfg.copies)}
DefaultOf(cfg, k) ==
    Str(cfg.placeholders[CHOOSE i \in 1..Len(cfg.placeholders) : cfg.placeholders[i][1] = k][2])

\* C17: a placeholder default is assigned only to a key that mapping did not
\* produce: the placeholder step leaves every key of the mapped record as it
\* is, and a placeholder key that is the target of a mapped, present, unmasked
\* source field keeps the mapped value, in the returned record too unless a
\* copy rewrites that key afterwards.
C17_PlaceholderKeepsMapped ==
    TransformedRecord =>
        /\ \A k \in DOMAIN output.mapped : output.placed[k] = output.mapped[k]
        /\ \A k \in PlaceholderKeys(input.cfg) :
              MappedSources(input.event, input.cfg, k) # {} =>
                  /\ output.placed[k] = MappedValue(input.event, input.cfg, k)
                  /\ k \notin CopyTargets(input.cfg) =>
                        output.record[k] = MappedValue(input.event, input.cfg, k)

\* a placeholder key was produced by mapping, with a value other than the
\* default, and the returned record has the mapped value
C17_Witness ==
    /\ TransformedRecord
    /\ \E k \in PlaceholderKeys(input.cfg) :
          /\ MappedSources(input.event, input.cfg, k) # {}
          /\ MappedValue(input.event, input.cfg, k) # DefaultOf(input.cfg, k)
          /\ output.record[k] = MappedValue(input.event, input.cfg, k)

\* vocabulary for transform_calendar
TransformedCalendar == output.op = "records"
HasBegin(e) == e.begin # None
Mixed(calendar) ==
    /\ \E i \in 1..Len(calendar) : HasBegin(calendar[i])
    /\ \E i \in 1..Len(calendar) : ~HasBegin(calendar[i])

\* the record of an entry of the calendar
RecordOf(e) == transform_event(e, input.cfg)

\* recs is one record per entry of the calendar: a rearrangement of the records
\* of the entries
OnePerEntry(recs, calendar) ==
    /\ Len(recs) = Len(calendar)
    /\ \A r \in {recs[k] : k \in 1..Len(recs)} \cup {RecordOf(calendar[k]) : k \in 1..Len(calendar)} :
          Cardinality({k \in 1..Len(recs) : recs[k] = r})
              = Cardinality({k \in 1..Len(calendar) : RecordOf(calendar[k]) = r})

\* the start of a record: 0 when it has none, so before every instant
StartOf(rec) ==
    IF "startTime" \in DOMAIN rec
    THEN CHOOSE n \in 1..24 : rec["startTime"].text = <<ToString(n)>>
    ELSE 0

\* C18: transform_calendar returns one record per calendar entry, ordered by
\* start instant ascending, the entries without a start instant before all
\* the entries that have one; the call does not fail on a mix of entries with
\* and without a start instant.
C18_SortedByStart ==
    TransformedCalendar =>
        /\ output.result.raised = "none"
        /\ OnePerEntry(output.result.events, input.calendar)
        /\ \A i, j \in 1..Len(output.result.events) :
              i < j => StartOf(output.result.events[i]) <= StartOf(output.result.events[j])

\* vocabulary for parse_location
ParsedLocation == output.op = "location"
Hyphens(t) == {k \in 1..Len(t) : t[k] = "-"}
Sherrerd == <<"101", " ", "-", " ", "Sherrerd">>

\* C19: parse_location splits the raw string on the first hyphen only into
\* detail (left, trimmed) and name (right, trimmed, hyphens included); with no
\* hyphen the whole trimmed string is detail and name is empty; missing or
\* empty input gives name, id and detail all empty; id is always empty;
\* '101 - Sherrerd' gives detail '101' and name 'Sherrerd'.
C19_SplitOnFirstHyphen ==
    ParsedLocation =>
        LET loc == output.location
            raw == input.raw
        IN  /\ IsLocationObject(loc)
            /\ loc.id = Empty
            /\ (raw = None \/ raw.text = Empty) => loc.name = Empty /\ loc.detail = Empty
            /\ (raw # None /\ Hyphens(raw.text) = {}) =>
                  loc.detail = Strip(raw.text) /\ loc.name = Empty
            /\ (raw # None /\ Hyphens(raw.text) # {}) =>
                  LET h == Min(Hyphens(raw.text))
                  IN  /\ loc.detail = Strip(SubSeq(raw.text, 1, h - 1))
                      /\ loc.name = Strip(SubSeq(raw.text, h + 1, Len(raw.text)))
            /\ (raw # None /\ raw.text = Sherrerd) =>
                  loc.detail = <<"101">> /\ loc.name = <<"Sherrerd">>

\* a string with two hyphens and blanks around its parts was parsed: the name
\* keeps the second hyphen
C19_Witness ==
    /\ ParsedLocation
    /\ input.raw # None
    /\ Cardinality(Hyphens(input.raw.text)) = 2
    /\ Strip(input.raw.text) # input.raw.text
    /\ output.location.detail # Empty
    /\ Hyphens(output.location.name) # {}

\* vocabulary for the categories
Categories == GetAttr(input.event, "categories")
Series == output.record["series"].text
IsAscending(ts) == \A i, j \in 1..Len(ts) : i < j => ~StrLess(ts[j], ts[i])
SameTags(a, b) ==
    /\ Len(a) = Len(b)
    /\ \A t \in {a[k] : k \in 1..Len(a)} \cup {b[k] : k \in 1..Len(b)} : Count(a, t) = Count(b, t)
Rearranged(ts, f) == [k \in 1..Len(ts) |-> ts[f[k]]]

\* C20: with join mode enabled a multi-tag categories value is mapped to the
\* tags in ascending order joined with the configured delimiter, and every
\* other order in which the source may yield the same tags is mapped to the
\* same string; a single-string value is passed through unchanged.
C20_SortedJoin ==
    (TransformedRecord /\ "series" \in DOMAIN output.record) =>
        /\ (Categories.kind = "tags" /\ input.cfg.join_categories) =>
              /\ \E ts \in [1..Len(Categories.tags) -> {Categories.tags[k] : k \in 1..Len(Categories.tags)}] :
                    /\ SameTags(ts, Categories.tags)
                    /\ IsAscending(ts)
                    /\ Series = Join(input.cfg.categories_delimiter, ts)
              /\ \A f \in Permutations(1..Len(Categories.tags)) :
                    Converted(TagList(Rearranged(Categories.tags, f)), "categories", input.cfg) = Series
        /\ Categories.kind = "str" => Series = Categories.text

\* join mode, several tags yielded out of order: the series is not the tags
\* joined as they came
C20_Witness ==
    /\ TransformedRecord
    /\ input.cfg.join_categories
    /\ Categories.kind = "tags"
    /\ Len(Categories.tags) >= 2
    /\ ~IsAscending(Categories.tags)
    /\ input.cfg.categories_delimiter # <<",">>
    /\ Series # Join(input.cfg.categories_delimiter, Categories.tags)

\* vocabulary for the newline mode
ContentMapped == output.op = "content"
ModeOf(kwargs) ==
    IF "represent_newlines_as" \in DOMAIN kwargs THEN kwargs["represent_newlines_as"] ELSE "unset"
Newlines(t) == {k \in 1..Len(t) : t[k] = "\n"}
LiteralRs(t) == {k \in 1..(Len(t) - 1) : t[k] = "\\" /\ t[k + 1] = "r"}

\* C21: the configuration has a newline representation mode: in 'literal_r'
\* mode a description with a newline is mapped to content with at least one
\* backslash-r per newline; in the default mode a newline becomes one space.
C21_NewlineMode ==
    ContentMapped =>
        /\ output.raised = "none"
        /\ ModeOf(input.kwargs) = "literal_r" =>
              Cardinality(LiteralRs(output.content)) >= Cardinality(Newlines(input.description))
        /\ input.kwargs = Kwargs("unset", TRUE, TRUE) =>
              output.content =
                  Normalize(escape_commas([k \in 1..Len(input.description) |->
                      IF input.description[k] = "\n" THEN " " ELSE input.description[k]]))

(***************************** title fallback ******************************)
\* vocabulary
FilledOnce == output.op = "filled" /\ prior = Idle
FilledTwice == output.op = "filled" /\ prior.op = "first"
TbdForms == {<<a, b, c>> : a \in {"t", "T"}, b \in {"b", "B"}, c \in {"d", "D"}}
Missing(t) == t \in {Absent, PyNone} \/ Strip(t) = Empty \/ Strip(t) \in TbdForms
HasSpeaker(ev) == ev.speaker \notin {Absent, PyNone, Empty}
ToFill(ev) == HasSpeaker(ev) /\ (Missing(ev.title) \/ input.overwrite)

\* C22: a title is missing iff it is None, empty, whitespace-only or 'TBD' in
\* any case after trimming; a record with a non-empty speaker and a missing
\* title (or any title under overwrite) gets the speaker as its title,
\* optionally preceded by the rendered prefix and one space; every other
\* record is unchanged; the count returned is the number of titles set.
C22_FillFromSpeaker ==
    FilledOnce =>
        LET before == input.events
            after == output.result.events
        IN  /\ Len(after) = Len(before)
            /\ \A k \in 1..Len(before) :
                  IF ToFill(before[k])
                  THEN /\ after[k].title \in
                            {before[k].speaker,
                             RenderPrefix(input.template, before[k]) \o <<" ">> \o before[k].speaker}
                       /\ input.template = Empty => after[k].title = before[k].speaker
                       /\ after[k].speaker = before[k].speaker
                       /\ after[k].series = before[k].series
                  ELSE after[k] = before[k]
            /\ output.result.count = Cardinality({k \in 1..Len(before) : ToFill(before[k])})

\* a 'TBD' title with blanks around it was replaced by the speaker, next to
\* a record that was left alone, without overwrite
C22_Witness ==
    /\ FilledOnce /\ ~input.overwrite
    /\ \E k \in 1..Len(input.events) :
          /\ Strip(input.events[k].title) \in TbdForms
          /\ HasSpeaker(input.events[k])
          /\ output.result.events[k].title = input.events[k].speaker
    /\ output.result.count = 1

\* the prefix that precedes the speaker in a title, Absent if none does
PrefixIn(title, speaker) ==
    LET n == Len(title) - Len(speaker) - 1
    IN  IF n >= 1 /\ SubSeq(title, n + 1, Len(title)) = <<" ">> \o speaker
        THEN SubSeq(title, 1, n) ELSE Absent

\* C23: a rendered prefix is discarded entirely, the title being the bare
\* speaker, exactly when its length after whitespace collapsing exceeds 128;
\* a non-empty rendered prefix of at most 128 characters is used in full.
C23_PrefixLengthLimit ==
    FilledOnce =>
        \A k \in 1..Len(input.events) :
            LET ev == input.events[k]
                p == RenderPrefix(input.template, ev)
                title == output.result.events[k].title
            IN  (ToFill(ev) /\ p # Empty) =>
                    /\ CharLen(p) > MAX_PREFIX_LEN <=> title = ev.speaker
                    /\ CharLen(p) <= MAX_PREFIX_LEN => title = p \o <<" ">> \o ev.speaker

\* the template with its replacement fields taken out
WithoutFields(template) == SelectSeq(template, LAMBDA u : u \notin Fields)
\* the key a replacement field names
KeyOf(u) ==
    IF u = "{series}" THEN "series" ELSE IF u = "{title}" THEN "title" ELSE "venue"
Unresolved(template, ev) ==
    \A k \in 1..Len(template) :
        template[k] \in Fields =>
            (KeyOf(template[k]) \in DOMAIN ev => ev[KeyOf(template[k])] \in {Absent, Empty})
\* a template of characters and replacement fields, without a brace of its own
NoBraces(template) == \A k \in 1..Len(template) : template[k] \notin {"{", "}"}
\* a template that ends with an odd number of opening braces: the last one
\* opens a field that is never closed
RECURSIVE TrailingOpen(_)
TrailingOpen(template) ==
    IF template = <<>> \/ template[Len(template)] # "{" THEN 0
    ELSE 1 + TrailingOpen(SubSeq(template, 1, Len(template) - 1))
Unclosed(template) == TrailingOpen(template) % 2 = 1

\* C24: a field reference the record does not resolve renders as the empty
\* string; the prefix in the title has its whitespace runs collapsed to one
\* space and is trimmed; a malformed template does not fail the call and is
\* used as its literal text.
C24_PrefixRendering ==
    FilledOnce =>
        \A k \in 1..Len(input.events) :
            LET ev == input.events[k]
                title == output.result.events[k].title
                p == PrefixIn(title, ev.speaker)
                short == CharLen(Normalize(RawText(input.template))) < MAX_PREFIX_LEN
            IN  (ToFill(ev) /\ input.template # Empty) =>
                    /\ p # Absent =>
                          /\ ~Contains(p, <<" ", " ">>)
                          /\ p[1] # " " /\ p[Len(p)] # " "
                    /\ (NoBraces(input.template) /\ Unresolved(input.template, ev) /\ short) =>
                          title = IF Normalize(WithoutFields(input.template)) = Empty
                                  THEN ev.speaker
                                  ELSE Normalize(WithoutFields(input.template))
                                           \o <<" ">> \o ev.speaker
                    /\ (Unclosed(input.template) /\ short) =>
                          title = Normalize(RawText(input.template)) \o <<" ">> \o ev.speaker

\* a template with an unresolved field between two blanks was rendered:
\* the title has one blank where the field was
C24_Witness ==
    /\ FilledOnce
    /\ input.template = <<"P", " ", "{venue}", " ", "P">>
    /\ Len(input.events) = 1
    /\ output.result.events[1].title = <<"P", " ", "P", " ", "A">>

\* C30 as claimed: with overwrite=False a second call made right after the
\* first, with the same template, changes no record's title, for any record
\* list and any prefix template.
C30_SecondCallNoChange ==
    (FilledTwice /\ ~input.overwrite) =>
        \A k \in 1..Len(input.events) :
            output.result.events[k].title = prior.result.events[k].title

\* C30 as amended: with overwrite=False and a template that does not refer
\* to the title field, a second call made right after the first changes no
\* record.
C30_SecondCallNoChangeUnlessTitleField ==
    (FilledTwice /\ ~input.overwrite
        /\ \A k \in 1..Len(input.template) : input.template[k] # "{title}") =>
        output.result.events = prior.result.events

\* the second call set a title again, the one the first call wrote being a
\* 'tbd' taken from the speaker, and wrote the same value
C30_Witness ==
    /\ FilledTwice /\ ~input.overwrite
    /\ \A k \in 1..Len(input.template) : input.template[k] # "{title}"
    /\ input.template # Empty
    /\ output.result.count = 1
    /\ Missing(prior.result.events[1].title)
    /\ output.result.events = prior.result.events

(***************************** stats accounting ****************************)
\* vocabulary
FetchCallDone == last.kind \in Kinds /\ last.enable
ExtractCallDone == last.kind = "raw_extracts" /\ last.enable
DistinctUrls(evs) == {UrlOf(evs[k]) : k \in 1..Len(evs)} \ {""}
WrittenFetch == {k \in 1..Len(last.log) : last.log[k].path = "written"}
ChangedFetch == {k \in 1..Len(events) : events[k][Field(last.kind)] # last.before[k][Field(last.kind)]}

\* C29: after a call of enrich_titles, enrich_content or enrich_raw_details
\* with enable=True on n records, attempted + skipped_missing_url = n,
\* updated <= attempted, errors <= attempted, errors is at most the number of
\* distinct URLs, and updated is the number of records whose target field was
\* written; after enrich_raw_extracts, attempted + skipped_missing_details = n,
\* updated_abstract <= attempted, updated_bio <= attempted and
\* errors <= 2 * attempted.
C29_StatsAccounting ==
    /\ FetchCallDone =>
          LET s == last.stats
          IN  /\ s.attempted + s.skipped_missing_url = Len(last.before)
              /\ s.updated <= s.attempted
              /\ s.errors <= s.attempted
              /\ s.errors <= Cardinality(DistinctUrls(last.before))
              /\ s.updated = Cardinality(WrittenFetch)
              /\ ChangedFetch \subseteq WrittenFetch
    /\ ExtractCallDone =>
          LET s == last.stats
          IN  /\ s.attempted + s.skipped_missing_details = Len(last.before)
              /\ s.updated_abstract <= s.attempted
              /\ s.updated_bio <= s.attempted
              /\ s.errors <= 2 * s.attempted
              /\ s.updated_abstract =
                    Cardinality({k \in 1..Len(last.log) : last.log[k].abstract = "written"})
              /\ s.updated_bio =
                    Cardinality({k \in 1..Len(last.log) : last.log[k].bio = "written"})

\* two records with the same URL, the first fetch failed: both attempted,
\* one error
C29_Witness ==
    /\ FetchCallDone
    /\ Len(last.before) >= 2
    /\ Cardinality(DistinctUrls(last.before)) = 1
    /\ last.stats.attempted = 2
    /\ last.stats.errors = 1
    /\ last.stats.skipped_missing_url = Len(last.before) - 2

\* the units of a description with a backslash put before every comma and
\* semicolon from position k on whose left neighbour is not a backslash
RECURSIVE BackslashAdded(_, _)
BackslashAdded(d, k) ==
    IF k > Len(d) THEN <<>>
    ELSE (IF d[k] \in {",", ";"} /\ (k = 1 \/ d[k - 1] # "\\")
          THEN <<"\\", d[k]>> ELSE <<d[k]>>) \o BackslashAdded(d, k + 1)

AllEscaped(d) ==
    \A k \in 1..Len(d) : d[k] \in {",", ";"} => k > 1 /\ d[k - 1] = "\\"

\* C28: description escaping puts a backslash before exactly the commas and
\* semicolons that are not preceded by one and changes nothing else; applied
\* to its own result it changes nothing, and in its result every comma and
\* semicolon is preceded by a backslash
C28_EscapeIdempotent ==
    output.op = "escaped" =>
        /\ output.once = BackslashAdded(input.description, 1)
        /\ output.twice = output.once
        /\ AllEscaped(output.once)

\* a description with an escaped and an unescaped separator has been escaped
C28_Witness ==
    /\ output.op = "escaped"
    /\ \E k \in 2..Len(input.description) :
          input.description[k] \in {",", ";"} /\ input.description[k - 1] = "\\"
    /\ \E k \in 1..Len(input.description) :
          input.description[k] \in {",", ";"}
          /\ (k = 1 \/ input.description[k - 1] # "\\")
    /\ output.once # input.description

\* ---- runs of main and generate_events_json --------------------------------
\* the series name a run is asked to exclude, Absent when none is given
ExcludedName ==
    IF input.op = "generate"
    THEN IF "EXCLUDE_SERIES" \in DOMAIN input.environ
         THEN <<input.environ["EXCLUDE_SERIES"]>> ELSE Absent
    ELSE IF input.op = "main" /\ "--exclude-series" \in DOMAIN input.argv
    THEN <<input.argv["--exclude-series"]>> ELSE Absent

\* the series of a calendar entry
SeriesOf(entry) == transform_event(entry, TransformConfig)["series"].text

\* C25: a run that is given a series name to exclude ends with status 0, its
\* output has no event of that series and has every other event of the
\* calendar, and main reports the number of removed events
C25_SeriesExclusion ==
    (output.op = "run" /\ ExcludedName # Absent
        /\ (input.op = "main" => "--limit" \notin DOMAIN input.argv)) =>
        /\ output.exit = 0
        /\ \A k \in 1..Len(output.data) : output.data[k].series # ExcludedName
        /\ \A j \in 1..Len(input.calendar) :
              SeriesOf(input.calendar[j]) # ExcludedName =>
                  \E k \in 1..Len(output.data) :
                      output.data[k].guid = input.calendar[j].uid.text
        /\ input.op = "main" =>
              \E k \in 1..Len(output.stderr) : output.stderr[k] = "removed"

\* C27: after a run of main no record with a non-empty speaker has a missing
\* title, whatever enrichment passes are switched on
C27_NoMissingTitleAfterMain ==
    (output.op = "run" /\ input.op = "main" /\ output.exit = 0) =>
        \A k \in 1..Len(output.data) :
            (Get(output.data[k], "speaker") \notin {PyNone, Empty}) =>
                ~is_missing(Get(output.data[k], "title"))

(***************************** content body location ***********************)
\* the nodes of the page in document order; a node is named by its position,
\* 0 names no node
PagePaths == Descendants(input.soup, <<>>, 1)
PageNodes == LET paths == PagePaths IN [k \in 1..Len(paths) |-> NodeAt(input.soup, paths[k])]

\* the earliest of a set of positions
Earliest(S) == IF S = {} THEN 0 ELSE CHOOSE k \in S : \A j \in S : k <= j

DivsOfClass(nodes, c) ==
    {k \in 1..Len(nodes) : nodes[k].name = "div" /\ c \in nodes[k].cls}
AllDivs(nodes) == {k \in 1..Len(nodes) : nodes[k].name = "div"}

\* the details container: the primary class before the alternate class
DetailsContainer(nodes) ==
    IF DivsOfClass(nodes, "events-detail-main") # {}
    THEN Earliest(DivsOfClass(nodes, "events-detail-main"))
    ELSE Earliest(DivsOfClass(nodes, "event-details-main"))

IsBelow(p, q) == Len(p) > Len(q) /\ SubSeq(p, 1, Len(q)) = q

\* the '.details' header of the details container c
DetailsHeader(paths, nodes, c) ==
    IF c = 0 THEN 0
    ELSE Earliest({k \in 1..Len(paths) :
                     IsBelow(paths[k], paths[c]) /\ "details" \in nodes[k].cls})

\* the candidates of the specific step after the header h by priority, and
\* of the generic step by order
SpecificRanks(nodes, h) ==
    <<{k \in DivsOfClass(nodes, "tex2jax_process") : k > h},
      {k \in DivsOfClass(nodes, "field__item") : k > h},
      {k \in DivsOfClass(nodes, "field--name-field-ps-body") : k > h},
      {k \in AllDivs(nodes) : k > h}>>
GenericRanks(nodes) ==
    <<DivsOfClass(nodes, "event-description"), DivsOfClass(nodes, "event-body"),
      DivsOfClass(nodes, "field--name-body"),
      {k \in AllDivs(nodes) : nodes[k].id = "content-body"},
      {k \in 1..Len(nodes) : nodes[k].name = "article"}>>

\* the earliest node of the first non-empty rank
ByRank(ranks) ==
    IF \A r \in 1..Len(ranks) : ranks[r] = {} THEN 0
    ELSE Earliest(ranks[CHOOSE r \in 1..Len(ranks) :
                          ranks[r] # {} /\ \A q \in 1..(r - 1) : ranks[q] = {}])

\* C26: the content body is located by an ordered chain: with a details
\* container (primary class before alternate class) the fragment is the
\* container when it has no '.details' header, and otherwise the block after
\* the header of the highest-priority class that occurs, whatever the
\* document order of the classes; the generic containers decide, in their
\* order, only when this yields nothing; no fragment is found only when
\* neither step matches
C26_OrderedLocation ==
    output.op = "located" =>
        LET paths == PagePaths
            nodes == PageNodes
            container == DetailsContainer(nodes)
            header == DetailsHeader(paths, nodes, container)
            specific == IF container = 0 THEN 0
                        ELSE IF header = 0 THEN container
                        ELSE ByRank(SpecificRanks(nodes, header))
            generic == ByRank(GenericRanks(nodes))
            fragment == output.found.fragment
        IN  /\ specific # 0 => fragment = paths[specific]
            /\ (specific = 0 /\ generic # 0) => fragment = paths[generic]
            /\ fragment = NoPath <=> (specific = 0 /\ generic = 0)

\* a page with an article before the details container, whose header is
\* followed by a field__item block and then a tex2jax_process block: the
\* later block is the fragment
C26_Witness ==
    /\ output.op = "located"
    /\ output.found.body # Empty
    /\ LET paths == PagePaths
           nodes == PageNodes
           container == DetailsContainer(nodes)
           header == DetailsHeader(paths, nodes, container)
           specific == SpecificRanks(nodes, header)
           articles == GenericRanks(nodes)[5]
       IN  /\ header # 0
           /\ articles # {} /\ Earliest(articles) < container
           /\ specific[1] # {} /\ specific[2] # {}
           /\ Earliest(specific[2]) < Earliest(specific[1])
           /\ output.found.fragment = paths[Earliest(specific[1])]

=============================================================================
